---- MODULE Spec2Model ----
(***************************************************************************)
(* Model of the schedule validation engine of jbandu/airline-scheduling:   *)
(* the ScheduleValidationAgent graph (load, eight validator nodes,         *)
(* compile, LLM analysis, report) and the validators' algorithms.          *)
(*                                                                         *)
(* Specifications:                                                         *)
(*   Spec         one call of ScheduleValidationAgent.validate             *)
(*   SpecCompile  compile_validation_results as a function of a result map *)
(*   SpecMCT      MCTValidator.validate over a flight list and a snapshot  *)
(*   SpecAircraft AircraftValidator.validate over a flight list and a      *)
(*                registry                                                 *)
(*   SpecPattern  PatternValidator.validate over a flight list             *)
(*   SpecSeasonal PatternValidator.validate over the seasonal records of   *)
(*                one flight number                                        *)
(*   SpecRerun    two runs of the MCT, aircraft and pattern validator      *)
(*                nodes over one flight list and one snapshot              *)
(*   SpecCurfew   CurfewValidator.validate over a flight list and a        *)
(*                snapshot                                                 *)
(*   SpecRouting  RoutingValidator.validate over a flight list and a       *)
(*                snapshot                                                 *)
(*   SpecChain    RoutingValidator.validate over the flights of one tail   *)
(*   SpecSlot     SlotValidator.validate over a flight list and a slot     *)
(*                table                                                    *)
(*   SpecRegulatory  RegulatoryValidator.validate over a flight list and a *)
(*                snapshot                                                 *)
(*   SpecCrew     CrewValidator.validate over a flight list, the crew's    *)
(*                earlier flights, a roster and the crew records           *)
(*   SpecWorkflow  the run_ssm_parser and run_validator wrappers of the    *)
(*                schedule-update workflow over a workflow state and the   *)
(*                outcomes of the wrapped agent calls                      *)
(***************************************************************************)
EXTENDS Integers, Sequences, FiniteSets, TLC

VARIABLES
    schedule_found,       \* the schedules table holds a row for schedule_id
    enable_llm_analysis,  \* ScheduleValidationAgent.enable_llm_analysis
    flights,              \* state["flights_to_validate"]
    active,               \* graph nodes scheduled in the current superstep
    ran,                  \* nodes of the current superstep that have returned
    calls,                \* how often each node's handler has been entered
    validation_results,   \* state["validation_results"]
    overall_status,       \* state["overall_status"]
    validation_summary,   \* state["validation_summary"]
    llm_calls_made,       \* state["llm_calls_made"]
    raised,               \* the nodes whose handler raised
    result,               \* what validate() returned, NoResult before
    refdata,              \* the reference-data snapshot the validators query
    returned,             \* the validator whose validate() has returned
    connections,          \* what MCTValidator._find_connections returned
    validator_issues,     \* the issue list the validator returned
    hash_seed,            \* the string hash seed of the interpreter process
    first_results,        \* the validation_results of an earlier run
    workflow_state,       \* the ScheduleUpdateState the wrappers work on
    agent_executions,     \* the rows of the agent_executions table
    last_call             \* the last wrapper entered and what its agent did

vars == <<schedule_found, enable_llm_analysis, flights, active, ran, calls,
          validation_results, overall_status, validation_summary,
          llm_calls_made, raised, result, refdata, returned, connections,
          validator_issues, hash_seed, first_results, workflow_state,
          agent_executions, last_call>>

\* the variables of the agent's run
runVars == <<schedule_found, enable_llm_analysis, active, ran, calls,
             validation_results, overall_status, validation_summary,
             llm_calls_made, raised, result>>

\* the variables of a validator called on its own
validatorVars == <<refdata, returned, connections, validator_issues,
                   hash_seed, first_results>>

\* the variables of the schedule-update workflow
workflowVars == <<workflow_state, agent_executions, last_call>>

-----------------------------------------------------------------------------
(* Bounds of the model *)

\* longest issue list of a category in Spec and SpecCompile
MaxIssues == 1
\* most categories that report a non-empty issue list in one run of Spec
MaxFindings == 2

\* flights in a list handed to a validator
MaxFlights == 2

\* wrapper calls of the schedule-update workflow in one behaviour
MaxWrapperCalls == 3

\* seasonal records of one flight number in a list of SpecSeasonal
MaxSeasonalRecords == 3

\* flights of one tail in a list of SpecChain
MaxChainFlights == 3

-----------------------------------------------------------------------------
(* Enumerations of agent.py *)

Severities == {"critical", "high", "medium", "low", "info"}

ValidatorNodes ==
    {"validate_slots", "validate_aircraft", "validate_crew", "validate_mct",
     "validate_curfews", "validate_regulatory", "validate_routing",
     "validate_patterns"}

Nodes ==
    {"load_schedule"} \cup ValidatorNodes
        \cup {"compile_results", "analyze_conflicts", "generate_report"}

END == "__end__"

\* a plausible slip: validate_aircraft_routing writes the key of
\* validate_aircraft_availability
CategoryOfShared ==
    [validate_slots      |-> "slot_validation",
     validate_aircraft   |-> "aircraft_validation",
     validate_crew       |-> "crew_validation",
     validate_mct        |-> "mct_validation",
     validate_curfews    |-> "curfew_validation",
     validate_regulatory |-> "regulatory_validation",
     validate_routing    |-> "aircraft_validation",
     validate_patterns   |-> "pattern_validation"]

\* the key of validation_results each validator node writes
CategoryOf ==
    [validate_slots      |-> "slot_validation",
     validate_aircraft   |-> "aircraft_validation",
     validate_crew       |-> "crew_validation",
     validate_mct        |-> "mct_validation",
     validate_curfews    |-> "curfew_validation",
     validate_regulatory |-> "regulatory_validation",
     validate_routing    |-> "routing_validation",
     validate_patterns   |-> "pattern_validation"]

Categories == {CategoryOf[v] : v \in ValidatorNodes}

\* the categories in a fixed order (the order of the validator nodes)
CategoryOrder ==
    <<"slot_validation", "aircraft_validation", "crew_validation",
      "mct_validation", "curfew_validation", "regulatory_validation",
      "routing_validation", "pattern_validation">>

EmptyResults == [c \in {} |-> <<>>]

NoResult == [status |-> "none"]

-----------------------------------------------------------------------------
(* The graph of _build_graph *)

EntryPoint == "load_schedule"

\* a plausible slip: validate_patterns chained behind validate_slots instead
\* of fanned out from load_schedule
EdgesChained ==
    ({<<"load_schedule", v>> : v \in ValidatorNodes \ {"validate_patterns"}})
        \cup {<<"validate_slots", "validate_patterns">>}
        \cup {<<v, "compile_results">> : v \in ValidatorNodes}
        \cup {<<"compile_results", "analyze_conflicts">>,
              <<"analyze_conflicts", "generate_report">>,
              <<"generate_report", END>>}

Edges ==
    {<<"load_schedule", v>> : v \in ValidatorNodes}
        \cup {<<v, "compile_results">> : v \in ValidatorNodes}
        \cup {<<"compile_results", "analyze_conflicts">>,
              <<"analyze_conflicts", "generate_report">>,
              <<"generate_report", END>>}

\* the nodes an edge leads to from a node of S
Successors(S) == {e[2] : e \in {x \in Edges : x[1] \in S}}

-----------------------------------------------------------------------------
(* compile_validation_results *)

RECURSIVE CountSeverity(_, _)
CountSeverity(issues, sev) ==
    IF issues = <<>> THEN 0
    ELSE (IF Head(issues).severity = sev THEN 1 ELSE 0)
            + CountSeverity(Tail(issues), sev)

\* sum(len(issues) for issues in results.values())
RECURSIVE TotalIssues(_, _)
TotalIssues(results, cats) ==
    IF cats = {} THEN 0
    ELSE LET c == CHOOSE x \in cats : TRUE
         IN  Len(results[c]) + TotalIssues(results, cats \ {c})

\* sum(len([i for i in issues if i["severity"] == sev]) for issues in ...)
RECURSIVE TotalSeverity(_, _, _)
TotalSeverity(results, cats, sev) ==
    IF cats = {} THEN 0
    ELSE LET c == CHOOSE x \in cats : TRUE
         IN  CountSeverity(results[c], sev)
                + TotalSeverity(results, cats \ {c}, sev)

\* a plausible slip: the status looks at the high count instead of the
\* critical count
CompileStatusHigh(results) ==
    IF TotalSeverity(results, DOMAIN results, "high") > 0
        THEN "critical_errors"
    ELSE IF TotalIssues(results, DOMAIN results) > 0 THEN "warnings"
    ELSE "valid"

CompileStatus(results) ==
    IF TotalSeverity(results, DOMAIN results, "critical") > 0
        THEN "critical_errors"
    ELSE IF TotalIssues(results, DOMAIN results) > 0 THEN "warnings"
    ELSE "valid"

-----------------------------------------------------------------------------
(* validate(): the return values *)

\* _format_result(final_state)
FormatResult(status, summary, results, fl, llm) ==
    [status |-> status, summary |-> summary, validation_results |-> results,
     flights_validated |-> Len(fl), llm_calls_made |-> llm]

\* the except branch of validate: no validation_results key
FailedResult(err) == [status |-> "failed", error |-> err]

-----------------------------------------------------------------------------
(* Flight records (the rows load_schedule_data builds) *)

\* a time of day "HH:MM:00" is the pair <<HH, MM>>; a date is its day number
Flight(id, num, carrier, orig, dest, dep, arr, days, from, to, type, reg, freq) ==
    [flight_id |-> id, flight_number |-> num, carrier_code |-> carrier,
     origin_airport |-> orig, destination_airport |-> dest,
     departure_time |-> dep, arrival_time |-> arr, operating_days |-> days,
     effective_from |-> from, effective_to |-> to, aircraft_type |-> type,
     aircraft_registration |-> reg, frequency_per_week |-> freq]

AllDays == <<"1", "2", "3", "4", "5", "6", "7">>

\* the flight of the unit tests' sample_flight fixture
SampleFlight ==
    Flight("f1", "CM101", "CM", "PTY", "MIA", <<8, 0>>, <<11, 30>>, AllDays,
           1, 90, "738", "HP-1234", 7)

\* the flight lists the flights table may hold for the schedule in Spec
LoadableFlights == {<<>>, <<SampleFlight>>}

-----------------------------------------------------------------------------
(* The run of the graph: nodes of one superstep run in any order, the next *)
(* superstep holds the successors of the nodes that ran                    *)

Scheduled(n) == result = NoResult /\ n \in active \ ran

\* node n returned; the graph moves on, and validate returns at END.
\* Reads the primed state variables: conjoin it after their assignments.
Finish(n) ==
    LET r == ran \cup {n} IN
    /\ UNCHANGED raised
    /\ IF r = active
       THEN LET next == Successors(r) \ {END} IN
            /\ active' = next
            /\ ran' = {}
            /\ result' = IF next = {}
                         THEN FormatResult(overall_status', validation_summary',
                                  validation_results', flights', llm_calls_made')
                         ELSE result
       ELSE /\ ran' = r
            /\ UNCHANGED <<active, result>>

\* node n raised: graph.invoke raises and validate's except branch returns
Abort(n, err) ==
    /\ raised' = raised \cup {n}
    /\ result' = FailedResult(err)
    /\ active' = {}
    /\ ran' = {}

Called(n) == calls' = [calls EXCEPT ![n] = @ + 1]

\* a plausible slip: a missing schedule row is not noticed
ScheduleMissingIgnored(found) == FALSE

\* `if not schedule_row: raise ValueError`
ScheduleMissing(found) == ~found

load_schedule_data ==
    /\ Scheduled("load_schedule")
    /\ Called("load_schedule")
    /\ UNCHANGED validatorVars
    /\ UNCHANGED workflowVars
    /\ UNCHANGED <<schedule_found, enable_llm_analysis, validation_results,
                   overall_status, validation_summary, llm_calls_made>>
    /\ IF ScheduleMissing(schedule_found)
       THEN /\ Abort("load_schedule", "Schedule not found")
            /\ UNCHANGED flights
       ELSE /\ flights' \in (IF schedule_found THEN LoadableFlights ELSE {<<>>})
            /\ Finish("load_schedule")

\* number of categories that reported issues so far
Findings ==
    Cardinality({c \in DOMAIN validation_results : validation_results[c] # <<>>})

\* the issues a validator of the category may report in Spec: findings of
\* a blocking and of a non-blocking severity
FindingsOf(cat) ==
    {[severity |-> s, category |-> cat, issue_type |-> "finding"] :
        s \in {"critical", "medium"}}

\* the issue lists validator node v may return: every validator loops over
\* the flights, so an empty flight list yields no issue
ValidatorReturns(v) ==
    IF flights = <<>> \/ Findings >= MaxFindings THEN {<<>>}
    ELSE {<<>>} \cup UNION {[1..n -> FindingsOf(CategoryOf[v])] : n \in 1..MaxIssues}

\* validate_airport_slots .. validate_schedule_patterns: the validator
\* returns its issues, or one of its reference-data lookups raises
ValidatorNode(v) ==
    /\ Scheduled(v)
    /\ Called(v)
    /\ UNCHANGED validatorVars
    /\ UNCHANGED workflowVars
    /\ UNCHANGED <<schedule_found, enable_llm_analysis, flights, overall_status,
                   validation_summary, llm_calls_made>>
    /\ \/ \E issues \in ValidatorReturns(v) :
            /\ validation_results' = (CategoryOf[v] :> issues) @@ validation_results
            /\ Finish(v)
       \/ /\ flights # <<>>
          /\ Abort(v, "lookup failed")
          /\ UNCHANGED validation_results

compile_validation_results ==
    /\ Scheduled("compile_results")
    /\ Called("compile_results")
    /\ UNCHANGED validatorVars
    /\ UNCHANGED workflowVars
    /\ overall_status' = CompileStatus(validation_results)
    /\ UNCHANGED <<schedule_found, enable_llm_analysis, flights,
                   validation_results, validation_summary, llm_calls_made>>
    /\ Finish("compile_results")

\* the critical and high issues analyze_conflicts_with_llm collects
HasCriticalOrHigh(results) ==
    \E c \in DOMAIN results : \E k \in 1..Len(results[c]) :
        results[c][k].severity \in {"critical", "high"}

\* the LLM is consulted only when enabled and there is something to analyze;
\* its answer is attached to copies of the issues, its failure is logged
analyze_conflicts_with_llm ==
    /\ Scheduled("analyze_conflicts")
    /\ Called("analyze_conflicts")
    /\ UNCHANGED validatorVars
    /\ UNCHANGED workflowVars
    /\ IF enable_llm_analysis /\ HasCriticalOrHigh(validation_results)
       THEN \E llm_ok \in BOOLEAN :
                llm_calls_made' = IF llm_ok THEN llm_calls_made + 1
                                  ELSE llm_calls_made
       ELSE UNCHANGED llm_calls_made
    /\ UNCHANGED <<schedule_found, enable_llm_analysis, flights,
                   validation_results, overall_status, validation_summary>>
    /\ Finish("analyze_conflicts")

\* report_generator.generate(...) is called without a try block
generate_validation_report ==
    /\ Scheduled("generate_report")
    /\ Called("generate_report")
    /\ UNCHANGED validatorVars
    /\ UNCHANGED workflowVars
    /\ UNCHANGED <<schedule_found, enable_llm_analysis, flights,
                   validation_results, overall_status, llm_calls_made>>
    /\ \/ /\ validation_summary' = "report"
          /\ Finish("generate_report")
       \/ /\ Abort("generate_report", "report failed")
          /\ UNCHANGED validation_summary

\* an empty snapshot
NoRefData ==
    [mct_rows |-> {}, flight_legs |-> {}, aircraft |-> {},
     airport_constraints |-> {}, slot_exemptions |-> {},
     current_movements |-> 0, airport_pairs |-> {}, airport_slots |-> {},
     bilateral_agreements |-> {}, current_frequencies |-> 0,
     codeshares |-> <<>>]

\* no validator is called on its own
ValidatorsIdle ==
    /\ refdata = NoRefData
    /\ returned = "none"
    /\ connections = <<>>
    /\ validator_issues = <<>>
    /\ hash_seed = 0
    /\ first_results = EmptyResults

\* a ScheduleUpdateState before any agent has run; validation_results is
\* <<>> for None and <<r>> for the result r
InitialWorkflowState(ssm_messages) ==
    [ssm_messages |-> ssm_messages, parsed_flights |-> <<>>,
     validation_results |-> <<>>, conflicts |-> <<>>, current_agent |-> "",
     messages |-> <<>>]

NoCall == [wrapper |-> "none", process |-> <<>>, validate |-> NoResult]

\* no workflow is running
WorkflowIdle ==
    /\ workflow_state = InitialWorkflowState(<<>>)
    /\ agent_executions = <<>>
    /\ last_call = NoCall

\* validate() builds initial_state and invokes the graph at its entry point
Init ==
    /\ ValidatorsIdle
    /\ WorkflowIdle
    /\ schedule_found \in BOOLEAN
    /\ enable_llm_analysis \in BOOLEAN
    /\ flights = <<>>
    /\ active = {EntryPoint}
    /\ ran = {}
    /\ calls = [n \in Nodes |-> 0]
    /\ validation_results = EmptyResults
    /\ overall_status = "valid"
    /\ validation_summary = "none"
    /\ llm_calls_made = 0
    /\ raised = {}
    /\ result = NoResult

Next ==
    \/ load_schedule_data
    \/ \E v \in ValidatorNodes : ValidatorNode(v)
    \/ compile_validation_results
    \/ analyze_conflicts_with_llm
    \/ generate_validation_report

Spec == Init /\ [][Next]_vars

-----------------------------------------------------------------------------
(* SpecCompile: compile_validation_results over every result map that      *)
(* holds some of three categories, each with up to MaxIssues issues of any *)
(* severity                                                                *)

CompileCategories == {"slot_validation", "mct_validation", "pattern_validation"}

SeverityLists(len) == UNION {[1..n -> Severities] : n \in 0..len}

\* the result map whose category c holds one issue per severity of sevs[c]
ResultsOf(sevs) ==
    [c \in DOMAIN sevs |->
        [k \in 1..Len(sevs[c]) |->
            [severity |-> sevs[c][k], category |-> c, issue_type |-> "finding"]]]


InitCompile ==
    /\ ValidatorsIdle
    /\ WorkflowIdle
    /\ schedule_found = TRUE
    /\ enable_llm_analysis = FALSE
    /\ flights = <<SampleFlight>>
    /\ active = {"compile_results"}
    /\ ran = {}
    /\ calls = [n \in Nodes |-> 0]
    /\ \E cats \in SUBSET CompileCategories :
            \E sevs \in [cats -> SeverityLists(MaxIssues)] :
                validation_results = ResultsOf(sevs)
    /\ overall_status = "valid"
    /\ validation_summary = "none"
    /\ llm_calls_made = 0
    /\ raised = {}
    /\ result = NoResult

NextCompile == compile_validation_results

SpecCompile == InitCompile /\ [][NextCompile]_vars

-----------------------------------------------------------------------------
(* MCTValidator (validators/mct_validator.py).  A database NULL is the     *)
(* string "NULL"; what a lookup fetched is <<>> for no row and <<v>> for a *)
(* row holding v.  The descriptive text fields of an issue are left out.   *)

NULL == "NULL"

DEFAULT_MCT ==
    [domestic_domestic |-> 45, domestic_international |-> 75,
     international_domestic |-> 90, international_international |-> 60,
     same_terminal |-> 0, terminal_change |-> 20, interline |-> 15,
     baggage_recheck |-> 30]

MCT_HUB_AIRPORTS ==
    {"JFK", "LHR", "CDG", "FRA", "AMS", "ORD", "LAX", "DFW",
     "ATL", "DEN", "IAH", "SFO", "MIA", "EWR", "LGA"}

SCHENGEN_COUNTRIES ==
    {"AT", "BE", "CZ", "DK", "EE", "FI", "FR", "DE", "GR", "HU",
     "IS", "IT", "LV", "LI", "LT", "LU", "MT", "NL", "NO", "PL",
     "PT", "SK", "SI", "ES", "SE", "CH"}

AIRPORT_COUNTRIES ==
    [JFK |-> "US", LAX |-> "US", ORD |-> "US", ATL |-> "US", DFW |-> "US",
     LHR |-> "GB", CDG |-> "FR", FRA |-> "DE", AMS |-> "NL", MAD |-> "ES",
     NRT |-> "JP", HND |-> "JP", ICN |-> "KR", PVG |-> "CN", HKG |-> "HK",
     DXB |-> "AE", SIN |-> "SG", BKK |-> "TH", SYD |-> "AU", MEL |-> "AU",
     YYZ |-> "CA", YVR |-> "CA", GRU |-> "BR", EZE |-> "AR", SCL |-> "CL",
     PTY |-> "PA", BOG |-> "CO", LIM |-> "PE", GIG |-> "BR", MIA |-> "US",
     IAH |-> "US", EWR |-> "US", SFO |-> "US", DEN |-> "US", LGA |-> "US"]

GetCountryFromAirport(airport_code) ==
    IF airport_code \in DOMAIN AIRPORT_COUNTRIES
    THEN AIRPORT_COUNTRIES[airport_code]
    ELSE "XX"

\* _parse_time gives time(HH, MM, 0); its minute of the day
MinutesOfDay(t) == t[1] * 60 + t[2]

\* (dep_dt - arr_dt) in minutes, dep_dt moved to the next day when it is
\* earlier than arr_dt
ConnectionMinutes(inbound, outbound) ==
    LET arr == MinutesOfDay(inbound.arrival_time)
        dep == MinutesOfDay(outbound.departure_time)
    IN  IF dep < arr THEN (dep + 1440) - arr ELSE dep - arr

IsPotentialConnection(inbound, outbound) ==
    LET connection_minutes == ConnectionMinutes(inbound, outbound)
    IN  30 <= connection_minutes /\ connection_minutes <= 360

\* flights_by_airport[key]: the flights grouped under (destination, date)
FlightsByAirport(fl, key) ==
    SelectSeq(fl, LAMBDA f : <<f.destination_airport, f.effective_from>> = key)

\* the pairs the second loop of _find_connections appends for one flight
ConnectionsOf(fl, flight) ==
    LET dest_key == <<flight.destination_airport, flight.effective_from>>
        outbounds == SelectSeq(FlightsByAirport(fl, dest_key),
                               LAMBDA o : IsPotentialConnection(flight, o))
    IN  [k \in 1..Len(outbounds) |-> <<flight, outbounds[k]>>]

RECURSIVE ConnectionsUpTo(_, _)
ConnectionsUpTo(fl, n) ==
    IF n = 0 THEN <<>>
    ELSE ConnectionsUpTo(fl, n - 1) \o ConnectionsOf(fl, fl[n])

FindConnections(fl) == ConnectionsUpTo(fl, Len(fl))

\* the WHERE clause of the minimum_connect_times query
MctRowMatches(row, airport, arr_airline, dep_airline) ==
    /\ row.airport_code = airport
    /\ \/ row.arrival_airline = arr_airline /\ row.departure_airline = dep_airline
       \/ row.arrival_airline = arr_airline /\ row.departure_airline = NULL
       \/ row.arrival_airline = NULL /\ row.departure_airline = dep_airline
       \/ row.arrival_airline = NULL /\ row.departure_airline = NULL

\* the CASE of its ORDER BY
MctRowRank(row, arr_airline, dep_airline) ==
    IF row.arrival_airline = arr_airline /\ row.departure_airline = dep_airline
    THEN 1
    ELSE IF row.arrival_airline = arr_airline THEN 2
    ELSE IF row.departure_airline = dep_airline THEN 3
    ELSE 4

\* the tables drawn hold at most one matching row of each rank
GetMctFromDatabase(rd, airport, inbound, outbound) ==
    LET rows == {row \in rd.mct_rows :
                    MctRowMatches(row, airport, inbound.carrier_code,
                                  outbound.carrier_code)}
        rank(row) == MctRowRank(row, inbound.carrier_code, outbound.carrier_code)
        first == CHOOSE row \in rows : \A other \in rows : rank(row) <= rank(other)
    IN  IF rows = {} THEN <<>> ELSE <<first.mct_minutes>>

IsInternationalFlight(flight) ==
    GetCountryFromAirport(flight.origin_airport)
        # GetCountryFromAirport(flight.destination_airport)

IsSchengenConnection(inbound, outbound) ==
    /\ GetCountryFromAirport(inbound.destination_airport) \in SCHENGEN_COUNTRIES
    /\ GetCountryFromAirport(outbound.destination_airport) \in SCHENGEN_COUNTRIES

\* fetchone() of a flight_legs query
LegTerminal(rd, flight_id, airport, leg_type) ==
    LET rows == {row \in rd.flight_legs :
                    /\ row.flight_id = flight_id
                    /\ row.airport_code = airport
                    /\ row.leg_type = leg_type}
    IN  IF rows = {} THEN <<>> ELSE <<(CHOOSE row \in rows : TRUE).terminal>>

RequiresTerminalChange(rd, airport, inbound, outbound) ==
    LET inbound_terminal == LegTerminal(rd, inbound.flight_id, airport, "arrival")
        outbound_terminal == LegTerminal(rd, outbound.flight_id, airport, "departure")
    IN  IF inbound_terminal # <<>> /\ outbound_terminal # <<>>
        THEN inbound_terminal[1] # outbound_terminal[1]
        ELSE /\ airport \in MCT_HUB_AIRPORTS
             /\ inbound.carrier_code # outbound.carrier_code

RequiresBaggageRecheck(inbound, outbound) ==
    \/ inbound.carrier_code # outbound.carrier_code
    \/ /\ ~IsInternationalFlight(inbound)
       /\ IsInternationalFlight(outbound)
       /\ GetCountryFromAirport(inbound.origin_airport) = "US"

\* `if db_mct:` is false for no row and for a row holding 0
GetRequiredMCT(rd, airport, inbound, outbound) ==
    LET db_mct == GetMctFromDatabase(rd, airport, inbound, outbound)
        inbound_intl == IsInternationalFlight(inbound)
        outbound_intl == IsInternationalFlight(outbound)
        base == IF ~inbound_intl /\ ~outbound_intl
                THEN DEFAULT_MCT.domestic_domestic
                ELSE IF ~inbound_intl /\ outbound_intl
                THEN DEFAULT_MCT.domestic_international
                ELSE IF inbound_intl /\ ~outbound_intl
                THEN DEFAULT_MCT.international_domestic
                ELSE IF IsSchengenConnection(inbound, outbound)
                THEN DEFAULT_MCT.domestic_domestic
                ELSE DEFAULT_MCT.international_international
    IN  IF db_mct # <<>> /\ db_mct[1] # 0
        THEN db_mct[1]
        ELSE base
             + (IF RequiresTerminalChange(rd, airport, inbound, outbound)
                THEN DEFAULT_MCT.terminal_change ELSE 0)
             + (IF inbound.carrier_code # outbound.carrier_code
                THEN DEFAULT_MCT.interline ELSE 0)
             + (IF RequiresBaggageRecheck(inbound, outbound)
                THEN DEFAULT_MCT.baggage_recheck ELSE 0)
             + (IF airport \in MCT_HUB_AIRPORTS THEN 10 ELSE 0)

ValidateConnectionTime(rd, inbound, outbound) ==
    LET connection_airport == inbound.destination_airport
        actual == ConnectionMinutes(inbound, outbound)
        required_mct == GetRequiredMCT(rd, connection_airport, inbound, outbound)
        common == [category |-> "mct_validation",
                   flight_id |-> outbound.flight_id,
                   flight_number |-> outbound.flight_number,
                   connection_airport |-> connection_airport,
                   inbound_flight |-> inbound.flight_number,
                   outbound_flight |-> outbound.flight_number,
                   actual_connection_minutes |-> actual,
                   required_mct_minutes |-> required_mct]
    IN  IF actual < required_mct
        THEN <<[severity |-> "high",
                issue_type |-> "insufficient_connection_time",
                shortfall_minutes |-> required_mct - actual] @@ common>>
        ELSE IF actual < required_mct + 5
        THEN <<[severity |-> "medium",
                issue_type |-> "tight_connection",
                buffer_minutes |-> actual - required_mct] @@ common>>
        ELSE <<>>

RECURSIVE MCTIssues(_, _, _)
MCTIssues(rd, conns, n) ==
    IF n = 0 THEN <<>>
    ELSE MCTIssues(rd, conns, n - 1)
         \o ValidateConnectionTime(rd, conns[n][1], conns[n][2])

\* time(hour, minute, second) raises ValueError outside 0..23 and 0..59
ParseTimeRaises(t) == ~(t[1] \in 0..23 /\ t[2] \in 0..59)

\* _find_connections calls _is_potential_connection, which parses the
\* inbound arrival and the outbound departure, for every flight and every
\* flight grouped under its destination and date, the flight itself included
FindConnectionsRaises(fl) ==
    \E i \in 1..Len(fl) :
        LET dest_key == <<fl[i].destination_airport, fl[i].effective_from>>
            outbounds == FlightsByAirport(fl, dest_key)
        IN  \E k \in 1..Len(outbounds) :
                \/ ParseTimeRaises(fl[i].arrival_time)
                \/ ParseTimeRaises(outbounds[k].departure_time)

\* MCTValidator.validate(flights): validate has no try block, an exception
\* of _parse_time leaves it
MCTValidate ==
    /\ returned = "none"
    /\ IF FindConnectionsRaises(flights)
       THEN /\ returned' = "mct_raised"
            /\ UNCHANGED <<connections, validator_issues>>
       ELSE /\ connections' = FindConnections(flights)
            /\ validator_issues' =
                   MCTIssues(refdata, connections', Len(connections'))
            /\ returned' = "mct"
    /\ UNCHANGED <<flights, refdata, hash_seed, first_results>>
    /\ UNCHANGED runVars
    /\ UNCHANGED workflowVars

(* SpecMCT: MCTValidator.validate over every list of up to MaxFlights      *)
(* flights drawn from MctFlightOptions and every snapshot of               *)
(* MctSnapshots                                                            *)

FlightIds == <<"f1", "f2", "f3", "f4">>
FlightNumbers == <<"101", "102", "103", "104">>

\* carrier and route
MctServices ==
    {<<"CM", "PTY", "MIA">>, <<"AA", "JFK", "MIA">>,
     <<"AA", "MIA", "JFK">>, <<"CM", "MIA", "JFK">>}

\* departure and arrival; the last one arrives at 23:30 local time
MctTimes ==
    {<<<<8, 0>>, <<10, 0>>>>, <<<<10, 59>>, <<13, 0>>>>,
     <<<<11, 0>>, <<13, 0>>>>, <<<<11, 4>>, <<13, 0>>>>,
     <<<<11, 5>>, <<13, 0>>>>, <<<<0, 29>>, <<23, 30>>>>}

MctDates == {1, 2}

\* an inbound flight that arrives at the hub MIA at 10:00 and an outbound
\* flight of another carrier that leaves MIA at 10:40, both domestic
ScenarioBOptions ==
    <<<<<<"AA", "JFK", "MIA">>, <<<<8, 0>>, <<10, 0>>>>, 1>>,
      <<<<"CM", "MIA", "JFK">>, <<<<10, 40>>, <<12, 40>>>>, 1>>>>

\* a flight whose departure_time is the string "25:00:00"
MalformedTimeOption == <<<<"CM", "PTY", "MIA">>, <<<<25, 0>>, <<10, 0>>>>, 1>>

MctFlightOptions ==
    (MctServices \X MctTimes \X MctDates)
    \cup {ScenarioBOptions[2], MalformedTimeOption}

\* the i-th flight of the list, built from an option
MctFlight(i, opt) ==
    Flight(FlightIds[i], FlightNumbers[i], opt[1][1], opt[1][2], opt[1][3],
           opt[2][1], opt[2][2], AllDays, opt[3], 90, "738", "HP-1234", 7)

MctTables ==
    {{}, {[airport_code |-> "MIA", arrival_airline |-> NULL,
           departure_airline |-> NULL, mct_minutes |-> 60]}}

LegTables ==
    {{}, {[flight_id |-> "f1", airport_code |-> "MIA", leg_type |-> "arrival",
           terminal |-> "N"],
          [flight_id |-> "f1", airport_code |-> "MIA", leg_type |-> "departure",
           terminal |-> "N"],
          [flight_id |-> "f2", airport_code |-> "MIA", leg_type |-> "arrival",
           terminal |-> "S"],
          [flight_id |-> "f2", airport_code |-> "MIA", leg_type |-> "departure",
           terminal |-> "S"]}}

\* the agent is not running
RunIdle ==
    /\ schedule_found = TRUE
    /\ enable_llm_analysis = FALSE
    /\ active = {}
    /\ ran = {}
    /\ calls = [n \in Nodes |-> 0]
    /\ validation_results = EmptyResults
    /\ overall_status = "valid"
    /\ validation_summary = "none"
    /\ llm_calls_made = 0
    /\ raised = {}
    /\ result = NoResult

InitMCT ==
    /\ RunIdle
    /\ WorkflowIdle
    /\ \E n \in 1..MaxFlights :
          \E opts \in [1..n -> MctFlightOptions] :
              flights = [i \in 1..n |-> MctFlight(i, opts[i])]
    /\ \E mct_rows \in MctTables :
          \E flight_legs \in LegTables :
              refdata = [NoRefData EXCEPT !.mct_rows = mct_rows,
                                            !.flight_legs = flight_legs]
    /\ returned = "none"
    /\ connections = <<>>
    /\ validator_issues = <<>>
    /\ hash_seed = 0
    /\ first_results = EmptyResults

NextMCT == MCTValidate

SpecMCT == InitMCT /\ [][NextMCT]_vars

-----------------------------------------------------------------------------
(* AircraftValidator (validators/aircraft_validator.py).  A datetime is    *)
(* the pair <<day, minute of the day>>; the day of datetime.now() is 0.    *)
(* scheduled_start and scheduled_end are <<>> for NULL and <<t>> for the   *)
(* time of day t, and are compared as times of day.                        *)

MIN_TURNAROUND_TIMES ==
    [narrow_body |-> 45, wide_body |-> 90, regional |-> 30, default |-> 45]

AIRCRAFT_CATEGORIES ==
    [narrow_body |-> {"319", "320", "321", "733", "737", "738", "739"},
     wide_body |-> {"330", "333", "359", "763", "764", "772", "773", "787",
                    "788", "789"},
     regional |-> {"E90", "E95", "CR7", "CR9", "DH4"}]

MAX_DAILY_FLIGHT_HOURS == 16

GetAircraftCategory(aircraft_type) ==
    IF aircraft_type \in AIRCRAFT_CATEGORIES.narrow_body THEN "narrow_body"
    ELSE IF aircraft_type \in AIRCRAFT_CATEGORIES.wide_body THEN "wide_body"
    ELSE IF aircraft_type \in AIRCRAFT_CATEGORIES.regional THEN "regional"
    ELSE "default"

\* datetime.combine(date, time), .time() and the minutes of a difference
Combine(day, t) == <<day, MinutesOfDay(t)>>
TimeOfDatetime(dt) == <<dt[2] \div 60, dt[2] % 60>>
MinutesBetween(later, earlier) ==
    (later[1] - earlier[1]) * 1440 + (later[2] - earlier[2])

\* the order of "HH:MM:SS" strings and of time objects
TimeLess(t1, t2) == t1[1] < t2[1] \/ (t1[1] = t2[1] /\ t1[2] < t2[2])

\* the keys of _group_by_aircraft's dict, in insertion order
RECURSIVE RegistrationsUpTo(_, _)
RegistrationsUpTo(fl, n) ==
    IF n = 0 THEN <<>>
    ELSE LET regs == RegistrationsUpTo(fl, n - 1)
             reg == fl[n].aircraft_registration
         IN  IF reg = NULL \/ reg = "" \/ \E k \in 1..Len(regs) : regs[k] = reg
             THEN regs
             ELSE Append(regs, reg)

\* fetchone() of the aircraft_availability query; the tables drawn hold at
\* most one row for a registration
GetAircraftInfo(rd, registration) ==
    LET rows == {row \in rd.aircraft : row.registration = registration}
    IN  IF rows = {} THEN <<>> ELSE <<CHOOSE row \in rows : TRUE>>

\* sorted() is stable: f goes behind the flights that do not depart later
InsertByDeparture(sorted, f) ==
    LET k == Cardinality({i \in 1..Len(sorted) :
                 ~TimeLess(f.departure_time, sorted[i].departure_time)})
    IN  SubSeq(sorted, 1, k) \o <<f>> \o SubSeq(sorted, k + 1, Len(sorted))

RECURSIVE SortedUpTo(_, _)
SortedUpTo(fl, n) ==
    IF n = 0 THEN <<>> ELSE InsertByDeparture(SortedUpTo(fl, n - 1), fl[n])

SortedByDeparture(fl) == SortedUpTo(fl, Len(fl))

AircraftIssue(severity, issue_type, flight, reg) ==
    [severity |-> severity, category |-> "aircraft_validation",
     flight_id |-> flight.flight_id, flight_number |-> flight.flight_number,
     issue_type |-> issue_type, aircraft_registration |-> reg]

ValidateAircraftType(flight, aircraft_info) ==
    IF flight.aircraft_type # aircraft_info.aircraft_type
    THEN <<AircraftIssue("high", "aircraft_type_mismatch", flight,
                         aircraft_info.registration)
           @@ [expected_type |-> flight.aircraft_type,
               actual_type |-> aircraft_info.aircraft_type]>>
    ELSE <<>>

ValidateMaintenance(rd, flight, aircraft_reg) ==
    LET rows == {row \in rd.aircraft :
                    /\ row.registration = aircraft_reg
                    /\ row.scheduled_start # <<>>
                    /\ row.scheduled_end # <<>>
                    /\ ~TimeLess(flight.departure_time, row.scheduled_start[1])
                    /\ ~TimeLess(row.scheduled_end[1], flight.departure_time)}
    IN  IF rows = {} THEN <<>>
        ELSE <<AircraftIssue("critical", "maintenance_conflict", flight,
                             aircraft_reg)>>

\* a plausible slip: a turnaround of exactly the minimum counts as too short
TurnaroundTooShortInclusive(turnaround_minutes, min_turnaround) ==
    turnaround_minutes <= min_turnaround

\* `if turnaround_minutes < min_turnaround`
TurnaroundTooShort(turnaround_minutes, min_turnaround) ==
    turnaround_minutes < min_turnaround

\* the overnight branch combines the departure with tomorrow's date and
\* takes .time() of it; both datetimes are then built on today's date
TurnaroundMinutes(prev_flight, current_flight) ==
    LET prev_arrival == prev_flight.arrival_time
        departure == current_flight.departure_time
        current_departure ==
            IF TimeLess(departure, prev_arrival)
            THEN TimeOfDatetime(Combine(1, departure))
            ELSE departure
    IN  MinutesBetween(Combine(0, current_departure), Combine(0, prev_arrival))

ValidateTurnaround(prev_flight, current_flight, aircraft_info) ==
    LET turnaround_minutes == TurnaroundMinutes(prev_flight, current_flight)
        category == GetAircraftCategory(aircraft_info.aircraft_type)
        min_turnaround == MIN_TURNAROUND_TIMES[category]
    IN  IF TurnaroundTooShort(turnaround_minutes, min_turnaround)
        THEN <<AircraftIssue("high", "insufficient_turnaround", current_flight,
                             aircraft_info.registration)
               @@ [previous_flight |-> prev_flight.flight_number,
                   previous_arrival |-> prev_flight.arrival_time,
                   current_departure |-> current_flight.departure_time,
                   turnaround_minutes |-> turnaround_minutes,
                   minimum_required |-> min_turnaround]>>
        ELSE <<>>

ValidateRoutingContinuity(prev_flight, current_flight) ==
    IF prev_flight.destination_airport # current_flight.origin_airport
    THEN <<AircraftIssue("critical", "routing_discontinuity", current_flight,
                         current_flight.aircraft_registration)
           @@ [previous_flight |-> prev_flight.flight_number,
               previous_destination |-> prev_flight.destination_airport,
               current_origin |-> current_flight.origin_airport]>>
    ELSE <<>>

\* arr_dt - dep_dt in minutes, arr_dt on the next day when arr < dep
DurationMinutes(flight) ==
    IF TimeLess(flight.arrival_time, flight.departure_time)
    THEN MinutesBetween(Combine(1, flight.arrival_time),
                        Combine(0, flight.departure_time))
    ELSE MinutesBetween(Combine(0, flight.arrival_time),
                        Combine(0, flight.departure_time))

RECURSIVE TotalMinutes(_, _)
TotalMinutes(day_flights, n) ==
    IF n = 0 THEN 0
    ELSE TotalMinutes(day_flights, n - 1) + DurationMinutes(day_flights[n])

\* the keys of flights_by_date, in insertion order
RECURSIVE DatesUpTo(_, _)
DatesUpTo(fl, n) ==
    IF n = 0 THEN <<>>
    ELSE LET dates == DatesUpTo(fl, n - 1)
         IN  IF \E k \in 1..Len(dates) : dates[k] = fl[n].effective_from
             THEN dates
             ELSE Append(dates, fl[n].effective_from)

\* total_hours > MAX_DAILY_FLIGHT_HOURS, in minutes
RECURSIVE UtilizationIssues(_, _, _, _)
UtilizationIssues(fl, aircraft_reg, dates, n) ==
    IF n = 0 THEN <<>>
    ELSE LET day_flights == SelectSeq(fl, LAMBDA f : f.effective_from = dates[n])
             total == TotalMinutes(day_flights, Len(day_flights))
         IN  UtilizationIssues(fl, aircraft_reg, dates, n - 1)
             \o (IF total > MAX_DAILY_FLIGHT_HOURS * 60
                 THEN <<[severity |-> "medium",
                         category |-> "aircraft_validation",
                         flight_id |-> day_flights[1].flight_id,
                         flight_number |-> "Multiple",
                         issue_type |-> "excessive_utilization",
                         aircraft_registration |-> aircraft_reg,
                         date |-> dates[n],
                         maximum_allowed |-> MAX_DAILY_FLIGHT_HOURS]>>
                 ELSE <<>>)

ValidateDailyUtilization(fl, aircraft_reg) ==
    LET dates == DatesUpTo(fl, Len(fl))
    IN  UtilizationIssues(fl, aircraft_reg, dates, Len(dates))

\* the body of `for i, flight in enumerate(sorted_flights)`, up to flight n
RECURSIVE TailFlightIssues(_, _, _, _, _)
TailFlightIssues(rd, sorted_flights, aircraft_info, aircraft_reg, n) ==
    IF n = 0 THEN <<>>
    ELSE TailFlightIssues(rd, sorted_flights, aircraft_info, aircraft_reg, n - 1)
         \o ValidateAircraftType(sorted_flights[n], aircraft_info)
         \o ValidateMaintenance(rd, sorted_flights[n], aircraft_reg)
         \o (IF n > 1
             THEN ValidateTurnaround(sorted_flights[n - 1], sorted_flights[n],
                                     aircraft_info)
                  \o ValidateRoutingContinuity(sorted_flights[n - 1],
                                               sorted_flights[n])
             ELSE <<>>)

\* a plausible slip: the status of a registered aircraft is not looked at
TailIssuesAnyStatus(rd, fl, aircraft_reg) ==
    LET aircraft_flights ==
            SelectSeq(fl, LAMBDA f : f.aircraft_registration = aircraft_reg)
        info == GetAircraftInfo(rd, aircraft_reg)
        sorted_flights == SortedByDeparture(aircraft_flights)
    IN  IF info = <<>>
        THEN [k \in 1..Len(aircraft_flights) |->
                 AircraftIssue("critical", "aircraft_not_found",
                               aircraft_flights[k], aircraft_reg)]
        ELSE TailFlightIssues(rd, sorted_flights, info[1], aircraft_reg,
                              Len(sorted_flights))
             \o ValidateDailyUtilization(sorted_flights, aircraft_reg)

\* one iteration of `for aircraft_reg, aircraft_flights in ...items()`
TailIssues(rd, fl, aircraft_reg) ==
    LET aircraft_flights ==
            SelectSeq(fl, LAMBDA f : f.aircraft_registration = aircraft_reg)
        info == GetAircraftInfo(rd, aircraft_reg)
        sorted_flights == SortedByDeparture(aircraft_flights)
    IN  IF info = <<>>
        THEN [k \in 1..Len(aircraft_flights) |->
                 AircraftIssue("critical", "aircraft_not_found",
                               aircraft_flights[k], aircraft_reg)]
        ELSE IF info[1].status # "active"
        THEN [k \in 1..Len(aircraft_flights) |->
                 AircraftIssue("critical", "aircraft_inactive",
                               aircraft_flights[k], aircraft_reg)
                 @@ [aircraft_status |-> info[1].status]]
        ELSE TailFlightIssues(rd, sorted_flights, info[1], aircraft_reg,
                              Len(sorted_flights))
             \o ValidateDailyUtilization(sorted_flights, aircraft_reg)

RECURSIVE AircraftIssues(_, _, _, _)
AircraftIssues(rd, fl, regs, n) ==
    IF n = 0 THEN <<>>
    ELSE AircraftIssues(rd, fl, regs, n - 1) \o TailIssues(rd, fl, regs[n])

\* AircraftValidator.validate(flights)
AircraftValidate ==
    /\ returned = "none"
    /\ LET regs == RegistrationsUpTo(flights, Len(flights))
       IN  validator_issues' = AircraftIssues(refdata, flights, regs, Len(regs))
    /\ returned' = "aircraft"
    /\ UNCHANGED <<flights, refdata, connections, hash_seed, first_results>>
    /\ UNCHANGED runVars
    /\ UNCHANGED workflowVars

(* SpecAircraft: AircraftValidator.validate over every list of up to       *)
(* MaxFlights flights drawn from AircraftFlightOptions and every registry  *)
(* of AircraftTables                                                       *)

AircraftTails == {"HP-1234", "HP-5678"}

\* origin and destination
AircraftRoutes == {<<"PTY", "MIA">>, <<"MIA", "PTY">>}

\* departure and arrival: a morning flight that lands at 10:00, and flights
\* that leave from 29 to 90 minutes later
AircraftTimes ==
    {<<<<8, 0>>, <<10, 0>>>>,
     <<<<10, 29>>, <<13, 0>>>>, <<<<10, 30>>, <<13, 0>>>>,
     <<<<10, 44>>, <<13, 0>>>>, <<<<10, 45>>, <<13, 0>>>>,
     <<<<11, 29>>, <<13, 0>>>>, <<<<11, 30>>, <<13, 0>>>>}

\* a flight from PTY to MIA from 08:00 to 11:30 and a flight from MIA to
\* JFK that leaves at 08:25, on one tail
ScenarioAOptions ==
    <<<<"HP-1234", <<"PTY", "MIA">>, <<<<8, 0>>, <<11, 30>>>>>>,
      <<"HP-1234", <<"MIA", "JFK">>, <<<<8, 25>>, <<11, 0>>>>>>>>

AircraftFlightOptions ==
    (AircraftTails \X AircraftRoutes \X AircraftTimes)
    \cup {ScenarioAOptions[1], ScenarioAOptions[2]}

AircraftFlight(i, opt) ==
    Flight(FlightIds[i], FlightNumbers[i], "CM", opt[2][1], opt[2][2],
           opt[3][1], opt[3][2], AllDays, 1, 90, "738", opt[1], 7)

AircraftRow(reg, type, status, start, end) ==
    [registration |-> reg, aircraft_type |-> type, status |-> status,
     scheduled_start |-> start, scheduled_end |-> end]

\* HP-5678 is an active 738; HP-1234 is absent, or of one of four types and
\* active or stored, or an active 738 due for maintenance from 10:40 to 10:50;
\* and two registries where HP-5678 is an active 773 and HP-1234 is absent
\* or a stored 738
AircraftTables ==
    {{AircraftRow("HP-5678", "738", "active", <<>>, <<>>)} \cup rows :
        rows \in {{}} \cup
                 {{AircraftRow("HP-1234", type, status, <<>>, <<>>)} :
                     type \in {"738", "773", "E90", "AT7"},
                     status \in {"active", "stored"}} \cup
                 {{AircraftRow("HP-1234", "738", "active", <<<<10, 40>>>>,
                              <<<<10, 50>>>>)}}}
    \cup {{AircraftRow("HP-5678", "773", "active", <<>>, <<>>)},
          {AircraftRow("HP-5678", "773", "active", <<>>, <<>>),
           AircraftRow("HP-1234", "738", "stored", <<>>, <<>>)}}

InitAircraft ==
    /\ RunIdle
    /\ WorkflowIdle
    /\ \E n \in 1..MaxFlights :
          \E opts \in [1..n -> AircraftFlightOptions] :
              flights = [i \in 1..n |-> AircraftFlight(i, opts[i])]
    /\ \E aircraft \in AircraftTables :
          refdata = [NoRefData EXCEPT !.aircraft = aircraft]
    /\ returned = "none"
    /\ connections = <<>>
    /\ validator_issues = <<>>
    /\ hash_seed = 0
    /\ first_results = EmptyResults

NextAircraft == AircraftValidate

SpecAircraft == InitAircraft /\ [][NextAircraft]_vars

-----------------------------------------------------------------------------
(* PatternValidator (validators/pattern_validator.py).  A string of        *)
(* operating days is the sequence of its characters.  The order in which   *)
(* a set of strings is iterated is fixed within one interpreter process    *)
(* and depends on the process's string hash seed: HashOrder gives two of   *)
(* the orders a process may have.                                          *)

\* a plausible slip: the digit 0 is taken for a day of operation
ValidOperatingCharsWithZero == {"0", "1", "2", "3", "4", "5", "6", "7", "X"}

VALID_OPERATING_CHARS == {"1", "2", "3", "4", "5", "6", "7", "X"}

\* the characters of "1234567"
DayDigits == {"1", "2", "3", "4", "5", "6", "7"}

PATTERN_HUB_AIRPORTS ==
    {"ATL", "DFW", "ORD", "LAX", "DEN", "JFK", "SFO", "IAH",
     "LHR", "CDG", "FRA", "AMS", "DXB", "SIN", "HKG"}

\* the strings that are put into sets
HashUniverse ==
    <<"0", "1", "2", "3", "4", "5", "6", "7", "A", "B", "X",
      "320", "738",
      "AMS", "ATL", "CDG", "DEN", "DFW", "DXB", "FRA", "HKG", "IAH", "JFK",
      "LAX", "LHR", "ORD", "SFO", "SIN">>

HashSeeds == {0, 1}

HashOrder(seed) ==
    IF seed = 0 THEN HashUniverse
    ELSE [k \in 1..Len(HashUniverse) |-> HashUniverse[Len(HashUniverse) + 1 - k]]

\* list(S) and `for x in S` of a set S of strings
ListOfSet(S, seed) == SelectSeq(HashOrder(seed), LAMBDA x : x \in S)

\* the airports of the flights drawn, in the order of sorted()
AirportsSorted == <<"JFK", "LAX", "MIA", "PTY">>

AirportLess(a, b) ==
    \E i \in 1..Len(AirportsSorted) : \E j \in 1..Len(AirportsSorted) :
        i < j /\ AirportsSorted[i] = a /\ AirportsSorted[j] = b

CharSet(s) == {s[k] : k \in 1..Len(s)}

PatternIssue(severity, issue_type, flight) ==
    [severity |-> severity, category |-> "pattern_validation",
     flight_id |-> flight.flight_id, flight_number |-> flight.flight_number,
     issue_type |-> issue_type, operating_days |-> flight.operating_days]

ValidateOperatingDays(flight, seed) ==
    LET operating_days == flight.operating_days
        invalid_chars == CharSet(operating_days) \ VALID_OPERATING_CHARS
    IN  IF Len(operating_days) # 7
        THEN <<PatternIssue("critical", "invalid_operating_days_length", flight)>>
        ELSE (IF invalid_chars # {}
              THEN <<PatternIssue("critical", "invalid_operating_days_chars",
                                  flight)
                     @@ [invalid_characters |-> ListOfSet(invalid_chars, seed)]>>
              ELSE <<>>)
             \o (IF CharSet(operating_days) \cap DayDigits = {}
                 THEN <<PatternIssue("high", "no_operating_days", flight)>>
                 ELSE <<>>)

RECURSIVE OperatingDaysIssues(_, _, _)
OperatingDaysIssues(fl, seed, n) ==
    IF n = 0 THEN <<>>
    ELSE OperatingDaysIssues(fl, seed, n - 1) \o ValidateOperatingDays(fl[n], seed)

\* sum(1 for c in operating_days if c in "1234567")
ActualFrequency(operating_days) ==
    Cardinality({k \in 1..Len(operating_days) : operating_days[k] \in DayDigits})

\* `if stated_freq and ...` is false for a stated frequency of 0
RECURSIVE ValidateFrequency(_, _)
ValidateFrequency(fl, n) ==
    IF n = 0 THEN <<>>
    ELSE LET flight == fl[n]
             stated_freq == flight.frequency_per_week
             actual_freq == ActualFrequency(flight.operating_days)
         IN  ValidateFrequency(fl, n - 1)
             \o (IF stated_freq # 0 /\ actual_freq # stated_freq
                 THEN <<PatternIssue("medium", "frequency_mismatch", flight)
                        @@ [stated_frequency |-> stated_freq,
                            actual_frequency |-> actual_freq]>>
                 ELSE <<>>)

\* the keys of a dict to which the keys inserted[1..n] were added in this
\* order, in insertion order
RECURSIVE KeysUpTo(_, _)
KeysUpTo(inserted, n) ==
    IF n = 0 THEN <<>>
    ELSE LET keys == KeysUpTo(inserted, n - 1)
         IN  IF \E k \in 1..Len(keys) : keys[k] = inserted[n]
             THEN keys
             ELSE Append(keys, inserted[n])

NumberRouteKey(f) ==
    <<f.carrier_code, f.flight_number, f.origin_airport, f.destination_airport>>

RECURSIVE EquipmentIssues(_, _, _, _)
EquipmentIssues(fl, keys, seed, n) ==
    IF n = 0 THEN <<>>
    ELSE LET flight_group == SelectSeq(fl, LAMBDA f : NumberRouteKey(f) = keys[n])
             aircraft_types == {flight_group[k].aircraft_type :
                                    k \in 1..Len(flight_group)}
         IN  EquipmentIssues(fl, keys, seed, n - 1)
             \o (IF Cardinality(aircraft_types) > 1
                 THEN <<[severity |-> "medium",
                         category |-> "pattern_validation",
                         flight_id |-> flight_group[1].flight_id,
                         flight_number |-> keys[n][2],
                         issue_type |-> "inconsistent_equipment",
                         carrier |-> keys[n][1],
                         route |-> <<keys[n][3], keys[n][4]>>,
                         aircraft_types |-> ListOfSet(aircraft_types, seed)]>>
                 ELSE <<>>)

ValidateEquipmentConsistency(fl, seed) ==
    LET keys == KeysUpTo([i \in 1..Len(fl) |-> NumberRouteKey(fl[i])], Len(fl))
    IN  EquipmentIssues(fl, keys, seed, Len(keys))

RECURSIVE SumMinutes(_, _)
SumMinutes(times, n) ==
    IF n = 0 THEN 0 ELSE SumMinutes(times, n - 1) + MinutesOfDay(times[n])

\* _average_time, as the minute of the day of the time it returns
AverageTime(times) ==
    IF times = <<>> THEN 0 ELSE SumMinutes(times, Len(times)) \div Len(times)

\* _time_diff_minutes of two minutes of the day
TimeDiffMinutes(time1, time2) ==
    IF time2 < time1 THEN (time2 + 1440) - time1 ELSE time2 - time1

CheckBankStructure(hub, arrivals, departures) ==
    LET arrival_times == [k \in 1..Len(arrivals) |-> arrivals[k].arrival_time]
        departure_times ==
            [k \in 1..Len(departures) |-> departures[k].departure_time]
        avg_arrival == AverageTime(arrival_times)
        avg_departure == AverageTime(departure_times)
        gap_minutes == TimeDiffMinutes(avg_arrival, avg_departure)
        issue(issue_type) ==
            [severity |-> "low", category |-> "pattern_validation",
             flight_id |-> "N/A", flight_number |-> "Hub pattern",
             issue_type |-> issue_type, hub |-> hub,
             avg_arrival_time |-> avg_arrival,
             avg_departure_time |-> avg_departure,
             gap_minutes |-> gap_minutes]
    IN  IF gap_minutes < 30 THEN <<issue("insufficient_connection_buffer")>>
        ELSE IF gap_minutes > 180 THEN <<issue("excessive_connection_buffer")>>
        ELSE <<>>

RECURSIVE HubBankIssues(_, _, _)
HubBankIssues(fl, hubs, n) ==
    IF n = 0 THEN <<>>
    ELSE LET hub_arrivals ==
                 SelectSeq(fl, LAMBDA f : f.destination_airport = hubs[n])
             hub_departures ==
                 SelectSeq(fl, LAMBDA f : f.origin_airport = hubs[n])
         IN  HubBankIssues(fl, hubs, n - 1)
             \o (IF hub_arrivals # <<>> /\ hub_departures # <<>>
                 THEN CheckBankStructure(hubs[n], hub_arrivals, hub_departures)
                 ELSE <<>>)

ValidateHubBanks(fl, seed) ==
    LET hubs == ListOfSet(PATTERN_HUB_AIRPORTS, seed)
    IN  HubBankIssues(fl, hubs, Len(hubs))

\* tuple(sorted([origin, dest]))
CanonicalRoute(f) ==
    IF AirportLess(f.destination_airport, f.origin_airport)
    THEN <<f.destination_airport, f.origin_airport>>
    ELSE <<f.origin_airport, f.destination_airport>>

RECURSIVE SymmetryIssues(_, _, _)
SymmetryIssues(fl, routes, n) ==
    IF n = 0 THEN <<>>
    ELSE LET pair == SelectSeq(fl, LAMBDA f : CanonicalRoute(f) = routes[n])
             outbound_count ==
                 Len(SelectSeq(pair, LAMBDA f : f.origin_airport = routes[n][1]))
             inbound_count == Len(pair) - outbound_count
             difference == IF outbound_count > inbound_count
                           THEN outbound_count - inbound_count
                           ELSE inbound_count - outbound_count
         IN  SymmetryIssues(fl, routes, n - 1)
             \o (IF difference > 1
                 THEN <<[severity |-> "medium",
                         category |-> "pattern_validation",
                         flight_id |-> "N/A",
                         flight_number |-> "Route pattern",
                         issue_type |-> "schedule_asymmetry",
                         route |-> routes[n],
                         outbound_flights |-> outbound_count,
                         inbound_flights |-> inbound_count,
                         difference |-> difference]>>
                 ELSE <<>>)

ValidateScheduleSymmetry(fl) ==
    LET routes == KeysUpTo([i \in 1..Len(fl) |-> CanonicalRoute(fl[i])], Len(fl))
    IN  SymmetryIssues(fl, routes, Len(routes))

\* a plausible slip: the group is left in the order of the flight list
InsertInListOrder(sorted, f) == Append(sorted, f)

\* sorted(flight_group, key=effective_from) is stable
InsertByEffectiveFrom(sorted, f) ==
    LET k == Cardinality({i \in 1..Len(sorted) :
                 sorted[i].effective_from <= f.effective_from})
    IN  SubSeq(sorted, 1, k) \o <<f>> \o SubSeq(sorted, k + 1, Len(sorted))

RECURSIVE SortedByEffectiveFrom(_, _)
SortedByEffectiveFrom(fl, n) ==
    IF n = 0 THEN <<>>
    ELSE InsertByEffectiveFrom(SortedByEffectiveFrom(fl, n - 1), fl[n])

\* the body of `for i in range(len(sorted_flights) - 1)`, up to i = n - 1
RECURSIVE PeriodIssues(_, _, _)
PeriodIssues(sorted_flights, key, n) ==
    IF n = 0 THEN <<>>
    ELSE LET current == sorted_flights[n]
             next_flight == sorted_flights[n + 1]
             current_end == current.effective_to
             next_start == next_flight.effective_from
             gap_days == next_start - current_end
             issue(severity, issue_type) ==
                 [severity |-> severity, category |-> "pattern_validation",
                  flight_id |-> next_flight.flight_id,
                  flight_number |-> key[2], issue_type |-> issue_type,
                  carrier |-> key[1]]
         IN  PeriodIssues(sorted_flights, key, n - 1)
             \o (IF current_end >= next_start
                 THEN <<issue("high", "overlapping_effective_dates")
                        @@ [current_period |->
                                <<current.effective_from, current_end>>,
                            next_period |->
                                <<next_start, next_flight.effective_to>>]>>
                 ELSE <<>>)
             \o (IF gap_days > 1
                 THEN <<issue("low", "gap_in_effective_dates")
                        @@ [gap_days |-> gap_days, gap_start |-> current_end,
                            gap_end |-> next_start]>>
                 ELSE <<>>)

NumberKey(f) == <<f.carrier_code, f.flight_number>>

RECURSIVE SeasonalIssues(_, _, _)
SeasonalIssues(fl, keys, n) ==
    IF n = 0 THEN <<>>
    ELSE LET flight_group == SelectSeq(fl, LAMBDA f : NumberKey(f) = keys[n])
             sorted_flights ==
                 SortedByEffectiveFrom(flight_group, Len(flight_group))
         IN  SeasonalIssues(fl, keys, n - 1)
             \o PeriodIssues(sorted_flights, keys[n], Len(sorted_flights) - 1)

ValidateSeasonalPatterns(fl) ==
    LET keys == KeysUpTo([i \in 1..Len(fl) |-> NumberKey(fl[i])], Len(fl))
    IN  SeasonalIssues(fl, keys, Len(keys))

\* what PatternValidator.validate(flights) returns in a process with this seed
PatternIssues(fl, seed) ==
    OperatingDaysIssues(fl, seed, Len(fl))
    \o ValidateFrequency(fl, Len(fl))
    \o ValidateEquipmentConsistency(fl, seed)
    \o ValidateHubBanks(fl, seed)
    \o ValidateScheduleSymmetry(fl)
    \o ValidateSeasonalPatterns(fl)

\* PatternValidator.validate(flights)
PatternValidate ==
    /\ returned = "none"
    /\ validator_issues' = PatternIssues(flights, hash_seed)
    /\ returned' = "pattern"
    /\ UNCHANGED <<flights, refdata, connections, hash_seed, first_results>>
    /\ UNCHANGED runVars
    /\ UNCHANGED workflowVars

(* SpecPattern: PatternValidator.validate over every list of up to         *)
(* MaxFlights flights drawn from PatternFlightOptions, in a process with   *)
(* either hash seed                                                        *)

\* "1234567", "12345XX", "XXXXXXX", "2134567", "1111111", "12345AB", "123"
\* and "12345678"
OperatingDaysOptions ==
    {AllDays,
     <<"1", "2", "3", "4", "5", "X", "X">>,
     <<"X", "X", "X", "X", "X", "X", "X">>,
     <<"2", "1", "3", "4", "5", "6", "7">>,
     <<"1", "1", "1", "1", "1", "1", "1">>,
     <<"1", "2", "3", "4", "5", "A", "B">>,
     <<"1", "2", "3", "4", "5", "6", "0">>,
     <<"1", "2", "3">>,
     <<"1", "2", "3", "4", "5", "6", "7", "8">>}

\* flight number, carrier, origin, destination, departure, arrival,
\* effective_from, effective_to, aircraft type and frequency per week
PatternServices ==
    {<<"101", "CM", "PTY", "MIA", <<8, 0>>, <<11, 30>>, 1, 90, "738", 7>>,
     <<"101", "CM", "PTY", "MIA", <<8, 0>>, <<11, 30>>, 60, 120, "320", 5>>,
     <<"201", "AA", "JFK", "LAX", <<8, 0>>, <<11, 0>>, 1, 90, "738", 7>>,
     <<"202", "AA", "LAX", "JFK", <<11, 20>>, <<20, 0>>, 1, 90, "738", 7>>,
     <<"101", "CM", "PTY", "MIA", <<8, 0>>, <<11, 30>>, 100, 180, "738", 7>>,
     <<"301", "CM", "PTY", "BOG", <<9, 0>>, <<10, 30>>, 1, 90, "738", 0>>}

PatternFlightOptions == PatternServices \X OperatingDaysOptions

PatternFlight(i, opt) ==
    Flight(FlightIds[i], opt[1][1], opt[1][2], opt[1][3], opt[1][4], opt[1][5],
           opt[1][6], opt[2], opt[1][7], opt[1][8], opt[1][9], "HP-1234",
           opt[1][10])

InitPattern ==
    /\ RunIdle
    /\ WorkflowIdle
    /\ \E n \in 1..MaxFlights :
          \E opts \in [1..n -> PatternFlightOptions] :
              flights = [i \in 1..n |-> PatternFlight(i, opts[i])]
    /\ refdata = NoRefData
    /\ hash_seed \in HashSeeds
    /\ first_results = EmptyResults
    /\ returned = "none"
    /\ connections = <<>>
    /\ validator_issues = <<>>

NextPattern == PatternValidate

SpecPattern == InitPattern /\ [][NextPattern]_vars

(* SpecSeasonal: PatternValidator.validate over every list of up to        *)
(* MaxSeasonalRecords seasonal records of flight number 101, of either of  *)
(* two carriers and with any of SeasonalPeriods as its effective dates     *)

\* effective_from and effective_to, as day numbers: [2, 3] and [5, 8] lie
\* inside [1, 10], [10, 12] touches it, [11, 20] follows it
SeasonalPeriods == {<<1, 10>>, <<2, 3>>, <<5, 8>>, <<10, 12>>, <<11, 20>>}

SeasonalOptions == {"CM", "AA"} \X SeasonalPeriods

SeasonalRecord(i, opt) ==
    Flight(FlightIds[i], "101", opt[1], "PTY", "MIA", <<8, 0>>, <<11, 30>>,
           AllDays, opt[2][1], opt[2][2], "738", "HP-1234", 7)

InitSeasonal ==
    /\ RunIdle
    /\ WorkflowIdle
    /\ \E n \in 1..MaxSeasonalRecords :
          \E opts \in [1..n -> SeasonalOptions] :
              flights = [i \in 1..n |-> SeasonalRecord(i, opts[i])]
    /\ refdata = NoRefData
    /\ hash_seed \in HashSeeds
    /\ first_results = EmptyResults
    /\ returned = "none"
    /\ connections = <<>>
    /\ validator_issues = <<>>

NextSeasonal == PatternValidate

SpecSeasonal == InitSeasonal /\ [][NextSeasonal]_vars

-----------------------------------------------------------------------------
(* SpecRerun: the validator nodes whose validators are modelled above run  *)
(* twice over one flight list and one snapshot, in any order within a run; *)
(* the second run is made by the same interpreter process or by another.   *)

ComputedValidators == {"validate_mct", "validate_aircraft", "validate_patterns"}

\* what the validator of node v returns
IssuesOfValidator(v, fl, rd, seed) ==
    IF v = "validate_mct"
    THEN LET conns == FindConnections(fl) IN MCTIssues(rd, conns, Len(conns))
    ELSE IF v = "validate_aircraft"
    THEN LET regs == RegistrationsUpTo(fl, Len(fl))
         IN  AircraftIssues(rd, fl, regs, Len(regs))
    ELSE PatternIssues(fl, seed)

\* a validator node of the current run: it stores its validator's issue list
\* under its category
RerunValidatorNode(v) ==
    /\ v \notin ran
    /\ ran' = ran \cup {v}
    /\ Called(v)
    /\ validation_results' =
           (CategoryOf[v] :> IssuesOfValidator(v, flights, refdata, hash_seed))
           @@ validation_results
    /\ UNCHANGED <<flights, schedule_found, enable_llm_analysis, active,
                   overall_status, validation_summary, llm_calls_made, raised,
                   result>>
    /\ UNCHANGED validatorVars
    /\ UNCHANGED workflowVars

\* the validators are run a second time over the same flights and snapshot
StartNextRun ==
    /\ ran = ComputedValidators
    /\ first_results = EmptyResults
    /\ first_results' = validation_results
    /\ validation_results' = EmptyResults
    /\ ran' = {}
    /\ UNCHANGED <<flights, schedule_found, enable_llm_analysis, active, calls,
                   overall_status, validation_summary, llm_calls_made, raised,
                   result, refdata, returned, connections, validator_issues>>
    /\ UNCHANGED workflowVars

\* ... by the process that made the earlier run
RerunInSameProcess ==
    /\ StartNextRun
    /\ UNCHANGED hash_seed

\* ... by another interpreter process, whose hash seed is its own
RerunInNewProcess ==
    /\ StartNextRun
    /\ hash_seed' \in HashSeeds

RerunServices ==
    {<<"101", "CM", "PTY", "MIA", <<8, 0>>, <<11, 30>>, 1, 90, "738", 7>>,
     <<"201", "AA", "JFK", "LAX", <<8, 0>>, <<11, 0>>, 1, 90, "738", 7>>,
     <<"202", "AA", "LAX", "JFK", <<11, 20>>, <<20, 0>>, 1, 90, "738", 7>>}

RerunFlightOptions ==
    RerunServices \X {AllDays, <<"1", "2", "3", "4", "5", "A", "B">>}

RerunTables == {{}, {AircraftRow("HP-1234", "738", "active", <<>>, <<>>)}}

InitRerun ==
    /\ RunIdle
    /\ WorkflowIdle
    /\ \E n \in 1..MaxFlights :
          \E opts \in [1..n -> RerunFlightOptions] :
              flights = [i \in 1..n |-> PatternFlight(i, opts[i])]
    /\ \E aircraft \in RerunTables :
          refdata = [NoRefData EXCEPT !.aircraft = aircraft]
    /\ hash_seed \in HashSeeds
    /\ first_results = EmptyResults
    /\ returned = "none"
    /\ connections = <<>>
    /\ validator_issues = <<>>

NextRerun ==
    \/ \E v \in ComputedValidators : RerunValidatorNode(v)
    \/ RerunInSameProcess
    \/ RerunInNewProcess

SpecRerun == InitRerun /\ [][NextRerun]_vars

-----------------------------------------------------------------------------
(* CurfewValidator (validators/curfew_validator.py).  A column that may be *)
(* NULL holds <<>> for NULL and <<v>> for the value v.  airport_constraints *)
(* holds, for each airport, the row the query of _get_airport_constraints  *)
(* selects, if any.  A TypeError a comparison raises ends validate() with   *)
(* no issue list returned.                                                 *)

CURFEW_AIRPORTS ==
    [a \in {"LHR", "SYD", "FRA", "ZRH", "DCA", "SNA", "BUR", "LGA", "SAN"} |->
        CASE a = "LHR" -> [start |-> <<23, 0>>, end |-> <<6, 0>>, strict |-> TRUE]
          [] a = "SYD" -> [start |-> <<23, 0>>, end |-> <<6, 0>>, strict |-> TRUE]
          [] a = "FRA" -> [start |-> <<23, 0>>, end |-> <<5, 0>>, strict |-> TRUE]
          [] a = "ZRH" -> [start |-> <<23, 30>>, end |-> <<6, 0>>, strict |-> TRUE]
          [] a = "DCA" -> [start |-> <<22, 0>>, end |-> <<7, 0>>, strict |-> TRUE]
          [] a = "SNA" -> [start |-> <<22, 0>>, end |-> <<7, 0>>, strict |-> TRUE]
          [] a = "BUR" -> [start |-> <<22, 0>>, end |-> <<7, 0>>, strict |-> TRUE]
          [] a = "LGA" -> [start |-> <<22, 0>>, end |-> <<6, 0>>, strict |-> FALSE]
          [] a = "SAN" -> [start |-> <<23, 30>>, end |-> <<6, 30>>, strict |-> FALSE]]

AIRCRAFT_NOISE_CATEGORIES ==
    [c \in {"Chapter 3", "Chapter 4", "Chapter 14"} |->
        CASE c = "Chapter 3" -> {"763", "764", "773"}
          [] c = "Chapter 4" -> {"737", "738", "739", "320", "321", "787",
                                 "788", "789"}
          [] c = "Chapter 14" -> {"320neo", "321neo", "A35K"}]

\* category_hierarchy.index(category)
CategoryIndex(category) ==
    CASE category = "Chapter 3" -> 0
      [] category = "Chapter 4" -> 1
      [] category = "Chapter 14" -> 2

\* _parse_time: the time of day, ordered as datetime.time orders
CurfewParseTime(t) == t[1] * 60 + t[2]

ConstraintsRow(airport, oh_start, oh_end, c_start, c_end, strict, max_night, noise, exemptions) ==
    [airport_code |-> airport,
     operating_hours_start |-> oh_start, operating_hours_end |-> oh_end,
     curfew_start |-> c_start, curfew_end |-> c_end, strict_curfew |-> strict,
     max_night_movements |-> max_night, noise_category_required |-> noise,
     exemption_types |-> exemptions]

\* _get_airport_constraints: <<>> when no row is fetched
GetAirportConstraints(rd, airport_code) ==
    LET rows == {r \in rd.airport_constraints : r.airport_code = airport_code}
    IN  IF rows = {} THEN <<>> ELSE <<CHOOSE r \in rows : TRUE>>

\* the constraints _validate_airport_hours builds from CURFEW_AIRPORTS;
\* exemption_types is absent from it and read with the default []
HardcodedConstraints(airport) ==
    ConstraintsRow(airport, <<<<0, 0>>>>, <<<<23, 59>>>>,
                   <<CURFEW_AIRPORTS[airport].start>>,
                   <<CURFEW_AIRPORTS[airport].end>>,
                   CURFEW_AIRPORTS[airport].strict, <<>>, <<>>, <<{}>>)

\* a plausible slip: an airport with no row and no entry in CURFEW_AIRPORTS
\* gets the default night window of constraints.get("curfew_start", "23:00")
ConstraintsForDefaultWindow(rd, airport) ==
    LET db == GetAirportConstraints(rd, airport)
    IN  IF db # <<>> THEN db
        ELSE IF airport \in DOMAIN CURFEW_AIRPORTS
        THEN <<HardcodedConstraints(airport)>>
        ELSE <<ConstraintsRow(airport, <<>>, <<>>, <<<<23, 0>>>>, <<<<6, 0>>>>,
                              FALSE, <<>>, <<>>, <<{}>>)>>

\* the constraints _validate_airport_hours works on: the database row, else
\* the entry of CURFEW_AIRPORTS, else <<>> (the airport operates 24/7)
ConstraintsFor(rd, airport) ==
    LET db == GetAirportConstraints(rd, airport)
    IN  IF db # <<>> THEN db
        ELSE IF airport \in DOMAIN CURFEW_AIRPORTS
        THEN <<HardcodedConstraints(airport)>>
        ELSE <<>>

IsWithinOperatingHours(scheduled, start, end) ==
    LET sched_time == CurfewParseTime(scheduled)
        start_time == CurfewParseTime(start)
        end_time == CurfewParseTime(end)
    IN  IF end_time < start_time
        THEN sched_time >= start_time \/ sched_time <= end_time
        ELSE start_time <= sched_time /\ sched_time <= end_time

\* a plausible slip: the window is open at its ends
IsDuringCurfewExclusive(scheduled, curfew_start, curfew_end) ==
    LET sched_time == CurfewParseTime(scheduled)
        start_time == CurfewParseTime(curfew_start)
        end_time == CurfewParseTime(curfew_end)
    IN  IF end_time < start_time
        THEN sched_time > start_time \/ sched_time < end_time
        ELSE start_time < sched_time /\ sched_time < end_time

IsDuringCurfew(scheduled, curfew_start, curfew_end) ==
    LET sched_time == CurfewParseTime(scheduled)
        start_time == CurfewParseTime(curfew_start)
        end_time == CurfewParseTime(curfew_end)
    IN  IF end_time < start_time
        THEN sched_time >= start_time \/ sched_time <= end_time
        ELSE start_time <= sched_time /\ sched_time <= end_time

IsQuietAircraft(aircraft_type) ==
    aircraft_type \in AIRCRAFT_NOISE_CATEGORIES["Chapter 14"]

\* the first category, in the order of the dict, that lists the type
GetNoiseCategory(aircraft_type) ==
    IF aircraft_type \in AIRCRAFT_NOISE_CATEGORIES["Chapter 3"] THEN "Chapter 3"
    ELSE IF aircraft_type \in AIRCRAFT_NOISE_CATEGORIES["Chapter 4"]
    THEN "Chapter 4"
    ELSE IF aircraft_type \in AIRCRAFT_NOISE_CATEGORIES["Chapter 14"]
    THEN "Chapter 14"
    ELSE "Chapter 3"

\* the row of airport_slots the exemption query fetches, as <<>> or <<row>>
SlotExemption(rd, flight, airport, operation) ==
    LET rows == {e \in rd.slot_exemptions :
                    /\ e.airport_code = airport
                    /\ e.allocated_to_flight = flight.flight_id
                    /\ e.slot_type = operation}
    IN  IF rows = {} THEN <<>> ELSE <<CHOOSE e \in rows : TRUE>>

\* _check_curfew_exemption raises TypeError: `in` applied to None
CurfewExemptionRaises(rd, flight, airport, operation, constraints) ==
    /\ SlotExemption(rd, flight, airport, operation) = <<>>
    /\ constraints.exemption_types = <<>>
    /\ flight.service_type = "F" \/ IsQuietAircraft(flight.aircraft_type)

\* a plausible slip: only a granted slot exemption on record counts, the
\* exemption types of the airport are not consulted
CheckCurfewExemptionSlotOnly(rd, flight, airport, operation, constraints) ==
    LET exemption == SlotExemption(rd, flight, airport, operation)
    IN  IF exemption # <<>> THEN <<exemption[1].exemption_type>> ELSE <<>>

\* _check_curfew_exemption: <<>> for None, <<reason>> otherwise
CheckCurfewExemption(rd, flight, airport, operation, constraints) ==
    LET exemption == SlotExemption(rd, flight, airport, operation)
        exemption_types == constraints.exemption_types[1]
    IN  IF exemption # <<>> THEN <<exemption[1].exemption_type>>
        ELSE IF flight.service_type = "F" /\ "cargo" \in exemption_types
        THEN <<"Cargo exemption">>
        ELSE IF IsQuietAircraft(flight.aircraft_type)
                /\ "quiet_aircraft" \in exemption_types
        THEN <<"Quiet aircraft exemption">>
        ELSE <<>>

CurfewIssue(severity, issue_type, flight, airport, operation, scheduled_time) ==
    [severity |-> severity, category |-> "curfew_validation",
     flight_id |-> flight.flight_id, flight_number |-> flight.flight_number,
     issue_type |-> issue_type, airport |-> airport, operation |-> operation,
     scheduled_time |-> scheduled_time]

\* _is_during_curfew raises TypeError when it compares None with a time
CurfewWindowMissing(constraints) ==
    constraints.curfew_start = <<>> \/ constraints.curfew_end = <<>>

CheckNightMovementQuota(rd, flight, airport, operation, scheduled_time, constraints) ==
    IF constraints.max_night_movements = <<>>
       \/ constraints.max_night_movements[1] = 0
    THEN <<>>
    ELSE IF ~IsDuringCurfew(scheduled_time, constraints.curfew_start[1],
                            constraints.curfew_end[1])
    THEN <<>>
    ELSE IF rd.current_movements >= constraints.max_night_movements[1]
    THEN <<CurfewIssue("high", "night_movement_quota_exceeded", flight,
                       airport, operation, scheduled_time)
           @@ [current_movements |-> rd.current_movements,
               max_movements |-> constraints.max_night_movements[1]]>>
    ELSE <<>>

CheckNoiseRestrictions(flight, airport, operation, scheduled_time, constraints) ==
    IF constraints.noise_category_required = <<>> THEN <<>>
    ELSE IF ~IsDuringCurfew(scheduled_time, constraints.curfew_start[1],
                            constraints.curfew_end[1])
    THEN <<>>
    ELSE LET aircraft_category == GetNoiseCategory(flight.aircraft_type)
             required_category == constraints.noise_category_required[1]
         IN  IF CategoryIndex(aircraft_category)
                    < CategoryIndex(required_category)
             THEN <<CurfewIssue("high", "noise_category_violation", flight,
                                airport, operation, scheduled_time)
                    @@ [aircraft_type |-> flight.aircraft_type,
                        aircraft_noise_category |-> aircraft_category,
                        required_category |-> required_category]>>
             ELSE <<>>

\* the curfew window is set and the scheduled time is in it
CurfewApplies(scheduled_time, constraints) ==
    /\ constraints.curfew_start # <<>>
    /\ constraints.curfew_end # <<>>
    /\ IsDuringCurfew(scheduled_time, constraints.curfew_start[1],
                      constraints.curfew_end[1])

\* _validate_airport_hours raises
AirportHoursRaises(rd, flight, airport, operation, scheduled_time) ==
    LET found == ConstraintsFor(rd, airport)
    IN  /\ found # <<>>
        /\ \/ /\ CurfewApplies(scheduled_time, found[1])
              /\ CurfewExemptionRaises(rd, flight, airport, operation, found[1])
           \/ /\ found[1].max_night_movements # <<>>
              /\ found[1].max_night_movements[1] # 0
              /\ CurfewWindowMissing(found[1])
           \/ /\ found[1].noise_category_required # <<>>
              /\ CurfewWindowMissing(found[1])

\* _validate_airport_hours, when it returns
ValidateAirportHours(rd, flight, airport, operation, scheduled_time) ==
    LET found == ConstraintsFor(rd, airport)
    IN  IF found = <<>> THEN <<>>
        ELSE
        LET constraints == found[1]
            has_exemption ==
                CheckCurfewExemption(rd, flight, airport, operation, constraints)
        IN  (IF /\ constraints.operating_hours_start # <<>>
                /\ constraints.operating_hours_end # <<>>
                /\ ~IsWithinOperatingHours(scheduled_time,
                                           constraints.operating_hours_start[1],
                                           constraints.operating_hours_end[1])
             THEN <<CurfewIssue("critical", "outside_operating_hours", flight,
                                airport, operation, scheduled_time)
                    @@ [operating_hours |->
                            <<constraints.operating_hours_start[1],
                              constraints.operating_hours_end[1]>>]>>
             ELSE <<>>)
            \o (IF CurfewApplies(scheduled_time, constraints)
                THEN IF has_exemption = <<>>
                     THEN <<CurfewIssue(IF constraints.strict_curfew
                                        THEN "critical" ELSE "high",
                                        "curfew_violation", flight, airport,
                                        operation, scheduled_time)
                            @@ [curfew_period |->
                                    <<constraints.curfew_start[1],
                                      constraints.curfew_end[1]>>,
                                strict_curfew |-> constraints.strict_curfew]>>
                     ELSE <<CurfewIssue("low", "curfew_exemption_used", flight,
                                        airport, operation, scheduled_time)
                            @@ [curfew_period |->
                                    <<constraints.curfew_start[1],
                                      constraints.curfew_end[1]>>,
                                exemption_reason |-> has_exemption[1]]>>
                ELSE <<>>)
            \o CheckNightMovementQuota(rd, flight, airport, operation,
                                       scheduled_time, constraints)
            \o CheckNoiseRestrictions(flight, airport, operation,
                                      scheduled_time, constraints)

\* a call of _validate_airport_hours for some flight raises
CurfewRaises(rd, fl) ==
    \E i \in 1..Len(fl) :
        \/ AirportHoursRaises(rd, fl[i], fl[i].origin_airport, "departure",
                              fl[i].departure_time)
        \/ AirportHoursRaises(rd, fl[i], fl[i].destination_airport, "arrival",
                              fl[i].arrival_time)

\* the issues of the first n flights
RECURSIVE CurfewIssues(_, _, _)
CurfewIssues(rd, fl, n) ==
    IF n = 0 THEN <<>>
    ELSE CurfewIssues(rd, fl, n - 1)
         \o ValidateAirportHours(rd, fl[n], fl[n].origin_airport, "departure",
                                 fl[n].departure_time)
         \o ValidateAirportHours(rd, fl[n], fl[n].destination_airport,
                                 "arrival", fl[n].arrival_time)

\* CurfewValidator.validate(flights): it returns the issue list, or raises
CurfewValidate ==
    /\ returned = "none"
    /\ IF CurfewRaises(refdata, flights)
       THEN /\ returned' = "curfew_raised"
            /\ UNCHANGED validator_issues
       ELSE /\ returned' = "curfew"
            /\ validator_issues' = CurfewIssues(refdata, flights, Len(flights))
    /\ UNCHANGED <<flights, refdata, connections, hash_seed, first_results>>
    /\ UNCHANGED runVars
    /\ UNCHANGED workflowVars

(* SpecCurfew: CurfewValidator.validate over every list of up to           *)
(* MaxFlights flights drawn from CurfewFlightOptions and every snapshot of *)
(* CurfewTables, CurfewMovements and CurfewExemptions                      *)

\* origin, destination, departure, arrival, aircraft type, service type:
\* LHR and LGA are in CURFEW_AIRPORTS, PTY and MIA are not
CurfewFlightOptions ==
    {<<"LHR", "PTY", <<22, 59>>, <<12, 59>>, "738", "J">>,
     <<"LHR", "PTY", <<23, 0>>, <<13, 0>>, "738", "J">>,
     <<"LHR", "PTY", <<6, 0>>, <<15, 0>>, "738", "J">>,
     <<"LHR", "PTY", <<6, 1>>, <<15, 1>>, "738", "J">>,
     <<"PTY", "LHR", <<14, 0>>, <<5, 59>>, "763", "J">>,
     <<"PTY", "LGA", <<13, 0>>, <<22, 0>>, "A35K", "J">>,
     <<"PTY", "LGA", <<15, 0>>, <<21, 59>>, "738", "F">>,
     <<"PTY", "MIA", <<23, 30>>, <<2, 0>>, "763", "F">>,
     <<"MIA", "PTY", <<0, 0>>, <<14, 0>>, "A35K", "F">>}

CurfewFlight(i, opt) ==
    Flight(FlightIds[i], FlightNumbers[i], "CM", opt[1], opt[2], opt[3],
           opt[4], AllDays, 1, 90, opt[5], "HP-1234", 7)
    @@ [service_type |-> opt[6]]

\* no row at all; a row for PTY with a curfew from 13:00 to 15:00 (strict
\* with no exemption types, lenient with a quota, a noise category and
\* exemption types, strict with exemption_types NULL), with operating hours
\* only, with a quota and no curfew window; a row for LHR that sets nothing
CurfewTables ==
    {{},
     {ConstraintsRow("PTY", <<>>, <<>>, <<<<13, 0>>>>, <<<<15, 0>>>>, TRUE,
                     <<>>, <<>>, <<{}>>)},
     {ConstraintsRow("PTY", <<<<6, 0>>>>, <<<<23, 0>>>>, <<<<13, 0>>>>,
                     <<<<15, 0>>>>, FALSE, <<2>>, <<"Chapter 4">>,
                     <<{"cargo", "quiet_aircraft"}>>)},
     {ConstraintsRow("PTY", <<>>, <<>>, <<<<13, 0>>>>, <<<<15, 0>>>>, TRUE,
                     <<>>, <<>>, <<>>)},
     {ConstraintsRow("PTY", <<<<6, 0>>>>, <<<<23, 0>>>>, <<>>, <<>>, FALSE,
                     <<>>, <<>>, <<>>)},
     {ConstraintsRow("PTY", <<>>, <<>>, <<>>, <<>>, FALSE, <<2>>, <<>>, <<>>)},
     {ConstraintsRow("LHR", <<>>, <<>>, <<>>, <<>>, FALSE, <<>>, <<>>, <<>>)}}

\* what the COUNT(*) of night movements returns
CurfewMovements == {0, 2}

CurfewExemptions ==
    {{}, {[airport_code |-> "PTY", allocated_to_flight |-> "f1",
           slot_type |-> "departure", exemption_type |-> "emergency"]}}

InitCurfew ==
    /\ RunIdle
    /\ WorkflowIdle
    /\ \E n \in 1..MaxFlights :
          \E opts \in [1..n -> CurfewFlightOptions] :
              flights = [i \in 1..n |-> CurfewFlight(i, opts[i])]
    /\ \E airport_constraints \in CurfewTables :
          \E current_movements \in CurfewMovements :
              \E slot_exemptions \in CurfewExemptions :
                  refdata = [NoRefData EXCEPT
                                !.airport_constraints = airport_constraints,
                                !.current_movements = current_movements,
                                !.slot_exemptions = slot_exemptions]
    /\ returned = "none"
    /\ connections = <<>>
    /\ validator_issues = <<>>
    /\ hash_seed = 0
    /\ first_results = EmptyResults

NextCurfew == CurfewValidate

SpecCurfew == InitCurfew /\ [][NextCurfew]_vars

-----------------------------------------------------------------------------
(* RoutingValidator (validators/routing_validator.py).  Distances are      *)
(* whole nautical miles.  The attributes required_range_nm and             *)
(* shortfall_nm of a range_exceeded issue are left out.                    *)

AIRCRAFT_RANGES ==
    [t \in {"319", "320", "321", "733", "737", "738", "739", "330", "333",
            "359", "763", "764", "772", "773", "787", "788", "789", "E90",
            "E95", "CR7", "CR9", "DH4"} |->
        CASE t = "319" -> 3750 [] t = "320" -> 3300 [] t = "321" -> 3200
          [] t = "733" -> 3000 [] t = "737" -> 3000 [] t = "738" -> 3100
          [] t = "739" -> 3300 [] t = "330" -> 6350 [] t = "333" -> 6350
          [] t = "359" -> 8100 [] t = "763" -> 6385 [] t = "764" -> 6385
          [] t = "772" -> 7730 [] t = "773" -> 7370 [] t = "787" -> 7355
          [] t = "788" -> 7355 [] t = "789" -> 7635 [] t = "E90" -> 2300
          [] t = "E95" -> 2300 [] t = "CR7" -> 2000 [] t = "CR9" -> 2400
          [] t = "DH4" -> 1200]

\* AIRCRAFT_RANGES.get(aircraft_type, 3000)
DEFAULT_RANGE == 3000

AIRPORT_DISTANCES ==
    [p \in {<<"JFK", "LHR">>, <<"LAX", "NRT">>, <<"LAX", "SYD">>,
            <<"DFW", "LHR">>, <<"ORD", "LHR">>} |->
        CASE p = <<"JFK", "LHR">> -> 2999
          [] p = <<"LAX", "NRT">> -> 4766
          [] p = <<"LAX", "SYD">> -> 6511
          [] p = <<"DFW", "LHR">> -> 4115
          [] p = <<"ORD", "LHR">> -> 3428]

\* the estimate _get_distance returns for a pair it does not know
DEFAULT_DISTANCE == 2000

ROUTING_HUB_AIRPORTS ==
    {"ATL", "DFW", "ORD", "LAX", "DEN", "JFK", "SFO", "IAH", "LHR", "CDG",
     "FRA", "AMS", "DXB", "SIN", "HKG", "ICN", "NRT", "SYD"}

\* the largest power of two that is at most n, for n >= 1
RECURSIVE Pow2Floor(_)
Pow2Floor(n) == IF n < 2 THEN 1 ELSE 2 * Pow2Floor(n \div 2)

\* `distance * 1.1 > max_range` in binary floating point.  The double 1.1
\* is 1.1 * (1 + 4 / (11 * 2^52)): the product is above max_range when
\* 11 * distance > 10 * max_range, and below when it is less; when they are
\* equal the exact product is max_range + max_range / (11 * 2^50), which
\* rounds to the double above max_range when that excess is more than half
\* the spacing of doubles at max_range, 2^(k-53) for 2^k <= max_range < 2^(k+1)
RangeExceeded(distance, max_range) ==
    \/ 11 * distance > 10 * max_range
    \/ /\ 11 * distance = 10 * max_range
       /\ 8 * max_range > 11 * Pow2Floor(max_range)

\* _get_distance_from_db: <<>> when no row is fetched
GetDistanceFromDb(rd, origin, dest) ==
    LET rows == {r \in rd.airport_pairs :
                    \/ r.origin_airport = origin /\ r.destination_airport = dest
                    \/ r.origin_airport = dest /\ r.destination_airport = origin}
    IN  IF rows = {} THEN <<>> ELSE <<(CHOOSE r \in rows : TRUE).distance_nm>>

GetDistance(rd, origin, dest) ==
    IF <<origin, dest>> \in DOMAIN AIRPORT_DISTANCES
    THEN AIRPORT_DISTANCES[<<origin, dest>>]
    ELSE IF <<dest, origin>> \in DOMAIN AIRPORT_DISTANCES
    THEN AIRPORT_DISTANCES[<<dest, origin>>]
    ELSE LET distance == GetDistanceFromDb(rd, origin, dest)
         IN  IF distance # <<>> /\ distance[1] # 0 THEN distance[1]
             ELSE DEFAULT_DISTANCE

\* the COUNT(*) of the rows of flight_legs of the flight
LegCount(rd, flight) ==
    Cardinality({row \in rd.flight_legs : row.flight_id = flight.flight_id})

CheckFuelStop(rd, flight) == LegCount(rd, flight) > 2

RoutingKey(f) == <<f.aircraft_registration, f.effective_from>>

\* _group_by_aircraft_and_date: the keys in the order of their first flight;
\* a flight with no registration is in no group
RoutingKeys(fl) ==
    LET grouped == SelectSeq(fl, LAMBDA f : f.aircraft_registration # NULL)
    IN  KeysUpTo([k \in 1..Len(grouped) |-> RoutingKey(grouped[k])],
                 Len(grouped))

\* a plausible slip: a flight that leaves at current's arrival or at next's
\* departure counts as a positioning flight
HasPositioningFlightInclusive(current, next_flight, all_flights) ==
    \E k \in 1..Len(all_flights) :
        /\ all_flights[k].origin_airport = current.destination_airport
        /\ all_flights[k].destination_airport = next_flight.origin_airport
        /\ ~TimeLess(all_flights[k].departure_time, current.arrival_time)
        /\ ~TimeLess(next_flight.departure_time, all_flights[k].departure_time)

\* _find_positioning_flight finds a flight
HasPositioningFlight(current, next_flight, all_flights) ==
    \E k \in 1..Len(all_flights) :
        /\ all_flights[k].origin_airport = current.destination_airport
        /\ all_flights[k].destination_airport = next_flight.origin_airport
        /\ TimeLess(current.arrival_time, all_flights[k].departure_time)
        /\ TimeLess(all_flights[k].departure_time, next_flight.departure_time)

RoutingIssue(severity, issue_type, flight_id, flight_number) ==
    [severity |-> severity, category |-> "routing_validation",
     flight_id |-> flight_id, flight_number |-> flight_number,
     issue_type |-> issue_type]

\* the loop of _validate_routing_chain over the first n pairs
RECURSIVE DiscontinuityIssues(_, _, _, _)
DiscontinuityIssues(fl, aircraft_reg, date, n) ==
    IF n = 0 THEN <<>>
    ELSE DiscontinuityIssues(fl, aircraft_reg, date, n - 1)
         \o (IF fl[n].destination_airport # fl[n + 1].origin_airport
                /\ ~HasPositioningFlight(fl[n], fl[n + 1], fl)
             THEN <<RoutingIssue("critical", "routing_discontinuity",
                                 fl[n + 1].flight_id, fl[n + 1].flight_number)
                    @@ [aircraft_registration |-> aircraft_reg,
                        date |-> date,
                        previous_flight |-> fl[n].flight_number,
                        previous_destination |-> fl[n].destination_airport,
                        next_origin |-> fl[n + 1].origin_airport]>>
             ELSE <<>>)

ValidateRoutingChain(fl, aircraft_reg, date) ==
    DiscontinuityIssues(fl, aircraft_reg, date, Len(fl) - 1)
    \o (IF Len(fl) > 0
           /\ fl[1].origin_airport # fl[Len(fl)].destination_airport
        THEN <<RoutingIssue("medium", "non_circular_routing",
                            fl[Len(fl)].flight_id, "Daily pattern")
               @@ [aircraft_registration |-> aircraft_reg, date |-> date,
                   first_origin |-> fl[1].origin_airport,
                   last_destination |-> fl[Len(fl)].destination_airport]>>
        ELSE <<>>)

\* the loop of _validate_range_limitations over the first n flights
RECURSIVE RangeIssues(_, _, _)
RangeIssues(rd, fl, n) ==
    IF n = 0 THEN <<>>
    ELSE LET flight == fl[n]
             max_range ==
                 IF flight.aircraft_type \in DOMAIN AIRCRAFT_RANGES
                 THEN AIRCRAFT_RANGES[flight.aircraft_type]
                 ELSE DEFAULT_RANGE
             distance == GetDistance(rd, flight.origin_airport,
                                     flight.destination_airport)
         IN  RangeIssues(rd, fl, n - 1)
             \o (IF RangeExceeded(distance, max_range)
                    /\ ~CheckFuelStop(rd, flight)
                 THEN <<RoutingIssue("critical", "range_exceeded",
                                     flight.flight_id, flight.flight_number)
                        @@ [aircraft_type |-> flight.aircraft_type,
                            origin |-> flight.origin_airport,
                            destination |-> flight.destination_airport,
                            distance_nm |-> distance,
                            aircraft_range_nm |-> max_range]>>
                 ELSE <<>>)

ValidateRangeLimitations(rd, fl) == RangeIssues(rd, fl, Len(fl))

ValidateHubConnectivity(fl) ==
    LET touches_hub(f) == \/ f.origin_airport \in ROUTING_HUB_AIRPORTS
                          \/ f.destination_airport \in ROUTING_HUB_AIRPORTS
        hub_flights == Len(SelectSeq(fl, touches_hub))
        spoke_flights == Len(fl) - hub_flights
    IN  IF Len(fl) > 3 /\ spoke_flights > hub_flights
        THEN <<RoutingIssue("low", "low_hub_connectivity", fl[1].flight_id,
                            "Daily pattern")
               @@ [hub_flights |-> hub_flights,
                   spoke_flights |-> spoke_flights]>>
        ELSE <<>>

\* the loop of _check_positioning_efficiency over the first n flights; the rows
\* load_schedule_data builds have no is_ferry
RECURSIVE PositioningIssues(_, _)
PositioningIssues(fl, n) ==
    IF n = 0 THEN <<>>
    ELSE PositioningIssues(fl, n - 1)
         \o (IF fl[n].service_type = "positioning"
             THEN <<RoutingIssue("low", "positioning_flight", fl[n].flight_id,
                                 fl[n].flight_number)
                    @@ [origin |-> fl[n].origin_airport,
                        destination |-> fl[n].destination_airport]>>
             ELSE <<>>)

CheckPositioningEfficiency(fl) == PositioningIssues(fl, Len(fl))

\* one iteration of `for (aircraft_reg, date), daily_flights in ...items()`
RoutingGroupIssues(rd, fl, key) ==
    LET daily_flights ==
            SelectSeq(fl, LAMBDA f : /\ f.aircraft_registration # NULL
                                     /\ RoutingKey(f) = key)
        sorted_flights == SortedByDeparture(daily_flights)
    IN  ValidateRoutingChain(sorted_flights, key[1], key[2])
        \o ValidateRangeLimitations(rd, sorted_flights)
        \o ValidateHubConnectivity(sorted_flights)
        \o CheckPositioningEfficiency(sorted_flights)

RECURSIVE RoutingIssues(_, _, _, _)
RoutingIssues(rd, fl, keys, n) ==
    IF n = 0 THEN <<>>
    ELSE RoutingIssues(rd, fl, keys, n - 1)
         \o RoutingGroupIssues(rd, fl, keys[n])

\* RoutingValidator.validate(flights)
RoutingValidate ==
    /\ returned = "none"
    /\ LET keys == RoutingKeys(flights)
       IN  validator_issues' = RoutingIssues(refdata, flights, keys, Len(keys))
    /\ returned' = "routing"
    /\ UNCHANGED <<flights, refdata, connections, hash_seed, first_results>>
    /\ UNCHANGED runVars
    /\ UNCHANGED workflowVars

(* SpecRouting: RoutingValidator.validate over every list of up to         *)
(* MaxFlights flights drawn from RoutingFlightOptions and every snapshot   *)
(* of RoutingLegTables and RoutingPairTables                               *)

\* registration, origin, destination, departure, arrival, aircraft type,
\* service type.  JFK-LHR is 2999 nm: 3298.9 nm with the reserve, within the
\* range of the 320 and beyond that of the 738.  PTY-GRU is in the table of
\* airport pairs or estimated at 2000 nm
RoutingFlightOptions ==
    {<<"HP-1234", "JFK", "LHR", <<8, 0>>, <<20, 0>>, "320", "J">>,
     <<"HP-1234", "JFK", "LHR", <<8, 0>>, <<20, 0>>, "738", "J">>,
     <<"HP-1234", "LHR", "JFK", <<21, 0>>, <<23, 30>>, "738", "J">>,
     <<"HP-1234", "PTY", "GRU", <<9, 0>>, <<16, 0>>, "320", "J">>,
     <<"HP-1234", "PTY", "GRU", <<9, 0>>, <<16, 0>>, "738", "J">>,
     <<"HP-1234", "GRU", "PTY", <<17, 0>>, <<23, 0>>, "CR7", "positioning">>,
     <<"HP-5678", "PTY", "GRU", <<9, 0>>, <<16, 0>>, "320", "J">>,
     <<NULL, "LAX", "SYD", <<22, 0>>, <<6, 0>>, "738", "J">>,
     <<"HP-5678", "GRU", "JFK", <<16, 30>>, <<20, 30>>, "32Q", "J">>}

RoutingFlight(i, opt) ==
    Flight(FlightIds[i], FlightNumbers[i], "CM", opt[2], opt[3], opt[4],
           opt[5], AllDays, 1, 90, opt[6], opt[1], 7)
    @@ [service_type |-> opt[7]]

LegRows(flight_id, n) ==
    {[flight_id |-> flight_id, leg_sequence |-> s] : s \in 2..(n + 1)}

\* the continuation legs on record: none, one, two or three for the first
\* flight, or one for the second
RoutingLegTables ==
    {{}, LegRows("f1", 1), LegRows("f1", 2), LegRows("f1", 3),
     LegRows("f2", 1)}

\* airport_pairs: empty, or PTY-GRU at 3000 nm (3300 nm with the reserve, the
\* range of the 320), at 3001 nm, or at 2818 nm (3099.8 nm with the reserve)
RoutingPairTables ==
    {{}} \cup {{[origin_airport |-> "PTY", destination_airport |-> "GRU",
                 distance_nm |-> d]} : d \in {2818, 3000, 3001}}

InitRouting ==
    /\ RunIdle
    /\ WorkflowIdle
    /\ \E n \in 1..MaxFlights :
          \E opts \in [1..n -> RoutingFlightOptions] :
              flights = [i \in 1..n |-> RoutingFlight(i, opts[i])]
    /\ \E flight_legs \in RoutingLegTables :
          \E airport_pairs \in RoutingPairTables :
              refdata = [NoRefData EXCEPT !.flight_legs = flight_legs,
                                            !.airport_pairs = airport_pairs]
    /\ returned = "none"
    /\ connections = <<>>
    /\ validator_issues = <<>>
    /\ hash_seed = 0
    /\ first_results = EmptyResults

NextRouting == RoutingValidate

SpecRouting == InitRouting /\ [][NextRouting]_vars

(* SpecChain: RoutingValidator.validate over every list of up to           *)
(* MaxChainFlights flights of one tail drawn from ChainFlightOptions       *)

\* origin, destination, departure, arrival and date.  The flight from PTY
\* lands at MIA at 01:00 and flights leave BOG at 23:00: the flights from
\* MIA to BOG leave between the two, at 01:00, at 23:00, or on another date
ChainFlightOptions ==
    {<<"PTY", "MIA", <<22, 0>>, <<1, 0>>, 1>>,
     <<"MIA", "BOG", <<5, 0>>, <<8, 0>>, 1>>,
     <<"MIA", "BOG", <<1, 0>>, <<4, 0>>, 1>>,
     <<"MIA", "BOG", <<23, 0>>, <<23, 59>>, 1>>,
     <<"MIA", "BOG", <<5, 0>>, <<8, 0>>, 2>>,
     <<"BOG", "PTY", <<23, 0>>, <<23, 50>>, 1>>,
     <<"MIA", "PTY", <<23, 0>>, <<23, 50>>, 1>>,
     <<"PTY", "MIA", <<8, 0>>, <<11, 0>>, 1>>}

ChainFlight(i, opt) ==
    Flight(FlightIds[i], FlightNumbers[i], "CM", opt[1], opt[2], opt[3],
           opt[4], AllDays, opt[5], 90, "738", "HP-1234", 7)
    @@ [service_type |-> "J"]

InitChain ==
    /\ RunIdle
    /\ WorkflowIdle
    /\ \E n \in 1..MaxChainFlights :
          \E opts \in [1..n -> ChainFlightOptions] :
              flights = [i \in 1..n |-> ChainFlight(i, opts[i])]
    /\ refdata = NoRefData
    /\ returned = "none"
    /\ connections = <<>>
    /\ validator_issues = <<>>
    /\ hash_seed = 0
    /\ first_results = EmptyResults

NextChain == RoutingValidate

SpecChain == InitChain /\ [][NextChain]_vars

-----------------------------------------------------------------------------
(* SlotValidator (validators/slot_validator.py).  slot_time is a timestamp, *)
(* the pair <<day, time of day>>; a tolerance column holds <<>> for NULL   *)
(* and <<n>> for n minutes.  airport_slots holds at most one row for an    *)
(* airport, slot type, airline and flight.                                 *)

COORDINATED_AIRPORTS ==
    {"LHR", "JFK", "LAX", "HND", "NRT", "CDG", "FRA", "AMS", "LGA", "ORD",
     "DCA", "SFO", "BOS", "EWR", "PHL", "DEN", "FCO", "MAD", "BCN", "ZRH",
     "MUC", "SIN", "HKG", "ICN"}

\* `tol_before or 5`, `tol_after or 5`
DEFAULT_TOLERANCE == 5

ToleranceOrDefault(tol) ==
    IF tol = <<>> \/ tol[1] = 0 THEN DEFAULT_TOLERANCE ELSE tol[1]

\* the row cursor.fetchone() returns: <<>> for None
FindSlot(rd, flight, airport, slot_type) ==
    LET rows == {s \in rd.airport_slots :
                    /\ s.airport_code = airport
                    /\ s.slot_type = slot_type
                    /\ s.allocated_to_airline = flight.carrier_code
                    /\ s.allocated_to_flight = flight.flight_id}
    IN  IF rows = {} THEN <<>> ELSE <<CHOOSE s \in rows : TRUE>>

\* slot_time.time()
SlotTimeOfDay(slot_time) == slot_time[2]

TimeWithinTolerance(scheduled, slot, tolerance_before, tolerance_after) ==
    LET sched_minutes == scheduled[1] * 60 + scheduled[2]
        slot_minutes == slot[1] * 60 + slot[2]
        diff == sched_minutes - slot_minutes
    IN  -tolerance_before <= diff /\ diff <= tolerance_after

SlotIssue(severity, issue_type, flight, airport, slot_type) ==
    [severity |-> severity, category |-> "slot_validation",
     flight_id |-> flight.flight_id, flight_number |-> flight.flight_number,
     issue_type |-> issue_type, airport |-> airport, slot_type |-> slot_type]

\* the checks of a slot that was found
FoundSlotIssues(slot, flight, airport, slot_type, scheduled_time) ==
    (IF ~TimeWithinTolerance(scheduled_time, SlotTimeOfDay(slot.slot_time),
                             ToleranceOrDefault(slot.tolerance_before_minutes),
                             ToleranceOrDefault(slot.tolerance_after_minutes))
     THEN <<SlotIssue("high", "slot_time_mismatch", flight, airport, slot_type)
            @@ [scheduled_time |-> scheduled_time,
                slot_time |-> SlotTimeOfDay(slot.slot_time)]>>
     ELSE <<>>)
    \o (IF ~slot.confirmed
        THEN <<SlotIssue("medium", "slot_not_confirmed", flight, airport,
                         slot_type)>>
        ELSE <<>>)

\* a plausible slip: the confirmation check is not under the else, and a
\* missing slot counts as not confirmed
ValidateSlotNoElse(rd, flight, airport, slot_type, scheduled_time) ==
    LET slot == FindSlot(rd, flight, airport, slot_type)
    IN  IF slot = <<>>
        THEN <<SlotIssue("critical", "missing_slot", flight, airport, slot_type),
               SlotIssue("medium", "slot_not_confirmed", flight, airport,
                         slot_type)>>
        ELSE FoundSlotIssues(slot[1], flight, airport, slot_type,
                             scheduled_time)

\* _validate_slot
ValidateSlot(rd, flight, airport, slot_type, scheduled_time) ==
    LET slot == FindSlot(rd, flight, airport, slot_type)
    IN  IF slot = <<>>
        THEN <<SlotIssue("critical", "missing_slot", flight, airport, slot_type)>>
        ELSE FoundSlotIssues(slot[1], flight, airport, slot_type,
                             scheduled_time)

\* the issues of the first n flights
RECURSIVE SlotIssues(_, _, _)
SlotIssues(rd, fl, n) ==
    IF n = 0 THEN <<>>
    ELSE SlotIssues(rd, fl, n - 1)
         \o (IF fl[n].origin_airport \in COORDINATED_AIRPORTS
             THEN ValidateSlot(rd, fl[n], fl[n].origin_airport, "departure",
                               fl[n].departure_time)
             ELSE <<>>)
         \o (IF fl[n].destination_airport \in COORDINATED_AIRPORTS
             THEN ValidateSlot(rd, fl[n], fl[n].destination_airport, "arrival",
                               fl[n].arrival_time)
             ELSE <<>>)

\* SlotValidator.validate(flights)
SlotValidate ==
    /\ returned = "none"
    /\ validator_issues' = SlotIssues(refdata, flights, Len(flights))
    /\ returned' = "slot"
    /\ UNCHANGED <<flights, refdata, connections, hash_seed, first_results>>
    /\ UNCHANGED runVars
    /\ UNCHANGED workflowVars

(* SpecSlot: SlotValidator.validate over every list of up to MaxFlights    *)
(* flights drawn from SlotFlightOptions and every table of SlotTables      *)

\* origin, destination, departure, arrival: JFK and LHR are coordinated, PTY
\* and MIA are not
SlotFlightOptions ==
    {<<"JFK", "LHR", <<8, 0>>, <<20, 0>>>>,
     <<"JFK", "PTY", <<8, 5>>, <<13, 0>>>>,
     <<"JFK", "PTY", <<8, 6>>, <<13, 0>>>>,
     <<"JFK", "PTY", <<7, 54>>, <<13, 0>>>>,
     <<"PTY", "JFK", <<8, 0>>, <<13, 0>>>>,
     <<"PTY", "JFK", <<8, 0>>, <<13, 11>>>>,
     <<"PTY", "MIA", <<8, 0>>, <<11, 0>>>>,
     <<"MIA", "PTY", <<12, 0>>, <<15, 0>>>>}

SlotFlight(i, opt) ==
    Flight(FlightIds[i], FlightNumbers[i], "CM", opt[1], opt[2], opt[3],
           opt[4], AllDays, 1, 90, "738", "HP-1234", 7)

SlotRow(airport, slot_type, airline, flight_id, slot_time, confirmed, tol_before, tol_after) ==
    [airport_code |-> airport, slot_type |-> slot_type,
     allocated_to_airline |-> airline, allocated_to_flight |-> flight_id,
     slot_time |-> slot_time, confirmed |-> confirmed,
     tolerance_before_minutes |-> tol_before,
     tolerance_after_minutes |-> tol_after]

\* the rows the tables are made of: a JFK departure slot of the first flight
\* at 08:00, confirmed with no tolerances set or unconfirmed with tolerances
\* of 0 and 10 minutes, or held by another airline; an LHR arrival slot of
\* the first flight; a JFK arrival slot of the second flight
SlotTables ==
    LET dep_confirmed == SlotRow("JFK", "departure", "CM", "f1",
                                 <<1, <<8, 0>>>>, TRUE, <<>>, <<>>)
        dep_unconfirmed == SlotRow("JFK", "departure", "CM", "f1",
                                   <<1, <<8, 0>>>>, FALSE, <<0>>, <<10>>)
        dep_other_airline == SlotRow("JFK", "departure", "AA", "f1",
                                     <<1, <<8, 0>>>>, TRUE, <<5>>, <<5>>)
        arr_lhr == SlotRow("LHR", "arrival", "CM", "f1", <<1, <<20, 0>>>>,
                           TRUE, <<5>>, <<5>>)
        arr_jfk == SlotRow("JFK", "arrival", "CM", "f2", <<1, <<13, 0>>>>,
                           TRUE, <<5>>, <<10>>)
    IN  {{}, {dep_confirmed}, {dep_unconfirmed}, {dep_other_airline},
         {dep_confirmed, arr_lhr}, {arr_lhr, arr_jfk},
         {dep_unconfirmed, arr_lhr, arr_jfk}}

InitSlot ==
    /\ RunIdle
    /\ WorkflowIdle
    /\ \E n \in 1..MaxFlights :
          \E opts \in [1..n -> SlotFlightOptions] :
              flights = [i \in 1..n |-> SlotFlight(i, opts[i])]
    /\ \E airport_slots \in SlotTables :
          refdata = [NoRefData EXCEPT !.airport_slots = airport_slots]
    /\ returned = "none"
    /\ connections = <<>>
    /\ validator_issues = <<>>
    /\ hash_seed = 0
    /\ first_results = EmptyResults

NextSlot == SlotValidate

SpecSlot == InitSlot /\ [][NextSlot]_vars

-----------------------------------------------------------------------------
(* RegulatoryValidator (validators/regulatory_validator.py).  A flight     *)
(* record may or may not have the key operating_carrier; the rows          *)
(* load_schedule_data builds do not.  bilateral_agreements holds the rows  *)
(* in effect today, at most one of which matches a query.                  *)

FREEDOM_DEFINITIONS ==
    <<"Overflight", "Technical stop",
      "Discharge passengers from home country",
      "Pick up passengers to home country",
      "Carry traffic between foreign countries",
      "Carry traffic via home country",
      "Carry traffic between foreign countries without touching home",
      "Cabotage (domestic within foreign country)">>

STRICT_CABOTAGE_COUNTRIES ==
    {"US", "CA", "AU", "NZ", "BR", "AR", "CL", "CN", "IN", "RU", "GB", "FR",
     "DE", "IT", "ES", "JP", "KR"}

EU_EEA_COUNTRIES ==
    {"AT", "BE", "BG", "HR", "CY", "CZ", "DK", "EE", "FI", "FR", "DE", "GR",
     "HU", "IE", "IT", "LV", "LT", "LU", "MT", "NL", "PL", "PT", "RO", "SK",
     "SI", "ES", "SE", "IS", "LI", "NO"}

CARRIER_COUNTRIES ==
    [AA |-> "US", DL |-> "US", UA |-> "US", WN |-> "US", B6 |-> "US",
     BA |-> "GB", VS |-> "GB", AF |-> "FR", LH |-> "DE", KL |-> "NL",
     IB |-> "ES", AZ |-> "IT", EI |-> "IE", SK |-> "SE", LX |-> "CH",
     CM |-> "PA", AV |-> "CO", LA |-> "CL", AR |-> "AR", G3 |-> "BR",
     NH |-> "JP", JL |-> "JP", KE |-> "KR", OZ |-> "KR", CA |-> "CN",
     SQ |-> "SG", TG |-> "TH", QF |-> "AU", NZ |-> "NZ", EK |-> "AE"]

GetCarrierCountry(carrier_code) ==
    IF carrier_code \in DOMAIN CARRIER_COUNTRIES
    THEN CARRIER_COUNTRIES[carrier_code]
    ELSE "XX"

REGULATORY_AIRPORT_COUNTRIES ==
    [JFK |-> "US", LAX |-> "US", ORD |-> "US", ATL |-> "US", DFW |-> "US",
     LHR |-> "GB", CDG |-> "FR", FRA |-> "DE", AMS |-> "NL", MAD |-> "ES",
     NRT |-> "JP", HND |-> "JP", ICN |-> "KR", PVG |-> "CN", HKG |-> "HK",
     DXB |-> "AE", SIN |-> "SG", BKK |-> "TH", SYD |-> "AU", MEL |-> "AU",
     YYZ |-> "CA", YVR |-> "CA", GRU |-> "BR", EZE |-> "AR", SCL |-> "CL",
     PTY |-> "PA", BOG |-> "CO", LIM |-> "PE", GIG |-> "BR", MIA |-> "US",
     IAH |-> "US", EWR |-> "US", SFO |-> "US", DEN |-> "US", LGA |-> "US",
     FCO |-> "IT", BCN |-> "ES", ZRH |-> "CH", MUC |-> "DE", DCA |-> "US",
     BOS |-> "US", PHL |-> "US", SNA |-> "US", BUR |-> "US", SAN |-> "US"]

RegulatoryCountryFromAirport(airport_code) ==
    IF airport_code \in DOMAIN REGULATORY_AIRPORT_COUNTRIES
    THEN REGULATORY_AIRPORT_COUNTRIES[airport_code]
    ELSE "XX"

\* _determine_required_freedom
DetermineRequiredFreedom(carrier_country, origin_country, dest_country) ==
    IF origin_country = carrier_country /\ dest_country = carrier_country
    THEN 8
    ELSE IF origin_country = carrier_country THEN 3
    ELSE IF dest_country = carrier_country THEN 4
    ELSE IF origin_country # carrier_country /\ dest_country # carrier_country
    THEN 5
    ELSE 0

\* _check_traffic_rights
CheckTrafficRights(rd, carrier, origin_country, dest_country, freedom) ==
    \E ba \in rd.bilateral_agreements :
        /\ ba.carrier_code = carrier
        /\ \/ ba.country_a = origin_country /\ ba.country_b = dest_country
           \/ ba.country_a = dest_country /\ ba.country_b = origin_country
        /\ freedom \in ba.freedoms_granted

\* _get_bilateral_agreement: <<>> for None
GetBilateralAgreement(rd, carrier_country, origin_country, dest_country) ==
    LET rows == {ba \in rd.bilateral_agreements :
                    \/ /\ ba.country_a = carrier_country
                       /\ ba.country_b \in {origin_country, dest_country}
                    \/ /\ ba.country_b = carrier_country
                       /\ ba.country_a \in {origin_country, dest_country}}
    IN  IF rows = {} THEN <<>> ELSE <<CHOOSE ba \in rows : TRUE>>

RegulatoryIssue(severity, issue_type, flight) ==
    [severity |-> severity, category |-> "regulatory_validation",
     flight_id |-> flight.flight_id, flight_number |-> flight.flight_number,
     issue_type |-> issue_type]

\* FREEDOM_DEFINITIONS.get(required_freedom, "Unknown")
FreedomDescription(freedom) ==
    IF freedom \in DOMAIN FREEDOM_DEFINITIONS
    THEN FREEDOM_DEFINITIONS[freedom]
    ELSE "Unknown"

ValidateTrafficRights(rd, flight) ==
    LET origin_country == RegulatoryCountryFromAirport(flight.origin_airport)
        dest_country == RegulatoryCountryFromAirport(flight.destination_airport)
        carrier_country == GetCarrierCountry(flight.carrier_code)
        required_freedom ==
            DetermineRequiredFreedom(carrier_country, origin_country,
                                     dest_country)
    IN  IF ~CheckTrafficRights(rd, flight.carrier_code, origin_country,
                               dest_country, required_freedom)
        THEN <<RegulatoryIssue("critical", "missing_traffic_rights", flight)
               @@ [carrier |-> flight.carrier_code,
                   carrier_country |-> carrier_country,
                   origin |-> flight.origin_airport,
                   origin_country |-> origin_country,
                   destination |-> flight.destination_airport,
                   destination_country |-> dest_country,
                   required_freedom |-> required_freedom,
                   freedom_description |-> FreedomDescription(required_freedom)]>>
        ELSE <<>>

\* flight.get("operating_carrier"): NULL for None
OperatingCarrier(flight) ==
    IF "operating_carrier" \in DOMAIN flight THEN flight.operating_carrier
    ELSE NULL

ValidateCabotage(flight) ==
    LET origin_country == RegulatoryCountryFromAirport(flight.origin_airport)
        dest_country == RegulatoryCountryFromAirport(flight.destination_airport)
        carrier_country == GetCarrierCountry(flight.carrier_code)
        is_wet_lease == OperatingCarrier(flight) # flight.carrier_code
    IN  IF origin_country = dest_country /\ carrier_country # origin_country
        THEN IF /\ origin_country \in EU_EEA_COUNTRIES
                /\ carrier_country \in EU_EEA_COUNTRIES
             THEN <<>>
             ELSE IF origin_country \in STRICT_CABOTAGE_COUNTRIES
                     /\ ~is_wet_lease
             THEN <<RegulatoryIssue("critical", "cabotage_violation", flight)
                    @@ [carrier |-> flight.carrier_code,
                        carrier_country |-> carrier_country,
                        flight_country |-> origin_country,
                        origin |-> flight.origin_airport,
                        destination |-> flight.destination_airport]>>
             ELSE <<>>
        ELSE <<>>

\* _check_frequency_limits, called with max_weekly_frequencies set
CheckFrequencyLimits(rd, flight, agreement) ==
    LET max_freq == agreement.max_weekly_frequencies[1]
    IN  IF rd.current_frequencies > max_freq
        THEN <<RegulatoryIssue("high", "frequency_limit_exceeded", flight)
               @@ [carrier |-> flight.carrier_code,
                   route |-> <<flight.origin_airport,
                               flight.destination_airport>>,
                   current_frequencies |-> rd.current_frequencies,
                   max_frequencies |-> max_freq]>>
        ELSE <<>>

ValidateBilateralAgreement(rd, flight) ==
    LET origin_country == RegulatoryCountryFromAirport(flight.origin_airport)
        dest_country == RegulatoryCountryFromAirport(flight.destination_airport)
        carrier_country == GetCarrierCountry(flight.carrier_code)
        agreement == GetBilateralAgreement(rd, carrier_country, origin_country,
                                           dest_country)
    IN  IF origin_country = dest_country THEN <<>>
        ELSE IF agreement = <<>>
        THEN <<RegulatoryIssue("critical", "no_bilateral_agreement", flight)
               @@ [carrier |-> flight.carrier_code,
                   carrier_country |-> carrier_country,
                   route |-> <<flight.origin_airport,
                               flight.destination_airport>>,
                   countries |-> <<origin_country, dest_country>>]>>
        ELSE (IF /\ agreement[1].max_weekly_frequencies # <<>>
                 /\ agreement[1].max_weekly_frequencies[1] # 0
              THEN CheckFrequencyLimits(rd, flight, agreement[1])
              ELSE <<>>)
             \o (IF agreement[1].capacity_limitations # <<>>
                 THEN <<RegulatoryIssue("medium", "capacity_limitations", flight)
                        @@ [carrier |-> flight.carrier_code,
                            route |-> <<flight.origin_airport,
                                        flight.destination_airport>>,
                            limitations |->
                                agreement[1].capacity_limitations[1]]>>
                 ELSE <<>>)

\* _check_designated_carrier, _check_wet_lease_approval and
\* _check_codeshare_approval return True
CheckDesignatedCarrier(carrier, carrier_country, origin_country, dest_country) ==
    TRUE

CheckWetLeaseApproval(marketing, operating, flight) == TRUE

CheckCodeshareApproval(marketing, operating, flight) == TRUE

ValidateDesignatedCarrier(flight) ==
    LET origin_country == RegulatoryCountryFromAirport(flight.origin_airport)
        dest_country == RegulatoryCountryFromAirport(flight.destination_airport)
        carrier_country == GetCarrierCountry(flight.carrier_code)
    IN  IF origin_country = dest_country THEN <<>>
        ELSE IF ~CheckDesignatedCarrier(flight.carrier_code, carrier_country,
                                        origin_country, dest_country)
        THEN <<RegulatoryIssue("critical", "not_designated_carrier", flight)
               @@ [carrier |-> flight.carrier_code,
                   carrier_country |-> carrier_country,
                   route |-> <<flight.origin_airport,
                               flight.destination_airport>>]>>
        ELSE <<>>

\* flight.get("operating_carrier", marketing_carrier)
ValidateWetLease(flight) ==
    LET marketing_carrier == flight.carrier_code
        operating_carrier ==
            IF "operating_carrier" \in DOMAIN flight
            THEN flight.operating_carrier
            ELSE marketing_carrier
    IN  IF operating_carrier # marketing_carrier
           /\ ~CheckWetLeaseApproval(marketing_carrier, operating_carrier, flight)
        THEN <<RegulatoryIssue("critical", "wet_lease_not_approved", flight)
               @@ [marketing_carrier |-> marketing_carrier,
                   operating_carrier |-> operating_carrier]>>
        ELSE <<>>

\* the rows of the code-share query of the flight, in the order fetched
CodesharesOf(rd, flight) ==
    SelectSeq(rd.codeshares, LAMBDA c : c.flight_id = flight.flight_id)

ValidateCodeshare(rd, flight) ==
    LET codeshares == CodesharesOf(rd, flight)
        unapproved ==
            SelectSeq(codeshares,
                      LAMBDA c : ~CheckCodeshareApproval(c.marketing_carrier,
                                                         c.operating_carrier,
                                                         flight))
    IN  [k \in 1..Len(unapproved) |->
            RegulatoryIssue("high", "codeshare_not_approved", flight)
            @@ [marketing_carrier |-> unapproved[k].marketing_carrier,
                operating_carrier |-> unapproved[k].operating_carrier]]

\* the issues of the first n flights
RECURSIVE RegulatoryIssues(_, _, _)
RegulatoryIssues(rd, fl, n) ==
    IF n = 0 THEN <<>>
    ELSE RegulatoryIssues(rd, fl, n - 1)
         \o ValidateTrafficRights(rd, fl[n])
         \o ValidateCabotage(fl[n])
         \o ValidateBilateralAgreement(rd, fl[n])
         \o ValidateDesignatedCarrier(fl[n])
         \o ValidateWetLease(fl[n])
         \o ValidateCodeshare(rd, fl[n])

\* RegulatoryValidator.validate(flights)
RegulatoryValidate ==
    /\ returned = "none"
    /\ validator_issues' = RegulatoryIssues(refdata, flights, Len(flights))
    /\ returned' = "regulatory"
    /\ UNCHANGED <<flights, refdata, connections, hash_seed, first_results>>
    /\ UNCHANGED runVars
    /\ UNCHANGED workflowVars

(* SpecRegulatory: RegulatoryValidator.validate over every list of up to   *)
(* MaxFlights flights drawn from RegulatoryFlightOptions and every         *)
(* snapshot of BilateralTables, RouteFrequencies and CodeshareTables       *)

\* carrier, origin, destination, and the operating carrier if the record has
\* one.  CM is of PA, AA of US, LH of DE, BA of GB; PTY is in PA, JFK and MIA
\* in US, LHR in GB, MAD and BCN in ES
RegulatoryFlightOptions ==
    {<<"CM", "PTY", "MIA">>, <<"CM", "MIA", "PTY">>, <<"CM", "JFK", "MIA">>,
     <<"CM", "JFK", "MIA", "CM">>, <<"CM", "JFK", "LHR">>,
     <<"AA", "JFK", "MIA">>, <<"LH", "MAD", "BCN", "LH">>,
     <<"BA", "MAD", "BCN", "BA">>, <<"CM", "PTY", "MIA", "AA">>}

RegulatoryFlight(i, opt) ==
    LET row == Flight(FlightIds[i], FlightNumbers[i], opt[1], opt[2], opt[3],
                      <<8, 0>>, <<11, 30>>, AllDays, 1, 90, "738", "HP-1234", 7)
    IN  IF Len(opt) = 4 THEN row @@ [operating_carrier |-> opt[4]] ELSE row

AgreementRow(carrier, country_a, country_b, freedoms, max_freq, capacity) ==
    [carrier_code |-> carrier, country_a |-> country_a, country_b |-> country_b,
     freedoms_granted |-> freedoms, max_weekly_frequencies |-> max_freq,
     capacity_limitations |-> capacity]

\* no agreement; PA-US with the 3rd and 4th freedoms for CM; PA-US with
\* more freedoms, seven weekly frequencies and a capacity limitation; US-US
\* with the 5th freedom for CM
BilateralTables ==
    {{},
     {AgreementRow("CM", "PA", "US", {3, 4}, <<>>, <<>>)},
     {AgreementRow("CM", "PA", "US", {3, 4, 5, 8}, <<7>>, <<"seats">>)},
     {AgreementRow("CM", "US", "US", {5}, <<>>, <<>>)}}

\* what the COUNT(*) of the frequencies of a route returns
RouteFrequencies == {7, 8}

CodeshareTables ==
    {<<>>, <<[flight_id |-> "f1", marketing_carrier |-> "AA",
              operating_carrier |-> "CM"]>>}

InitRegulatory ==
    /\ RunIdle
    /\ WorkflowIdle
    /\ \E n \in 1..MaxFlights :
          \E opts \in [1..n -> RegulatoryFlightOptions] :
              flights = [i \in 1..n |-> RegulatoryFlight(i, opts[i])]
    /\ \E bilateral_agreements \in BilateralTables :
          \E current_frequencies \in RouteFrequencies :
              \E codeshares \in CodeshareTables :
                  refdata = [NoRefData EXCEPT
                                !.bilateral_agreements = bilateral_agreements,
                                !.current_frequencies = current_frequencies,
                                !.codeshares = codeshares]
    /\ returned = "none"
    /\ connections = <<>>
    /\ validator_issues = <<>>
    /\ hash_seed = 0
    /\ first_results = EmptyResults

NextRegulatory == RegulatoryValidate

SpecRegulatory == InitRegulatory /\ [][NextRegulatory]_vars

-----------------------------------------------------------------------------
(* The agent wrappers of WeeklyScheduleUpdateWorkflow                      *)
(* (workflows/schedule_update/workflow.py).  The wrapped agents are the    *)
(* workflow's collaborators: what a call of ssm_parser.process or of       *)
(* validator.validate does is an input of the wrapper.  Timestamps and     *)
(* execution times are left out of the messages.                           *)

\* ssm_parser.process(msg["content"]) returns a result whose status is
\* "success", returns a result of another status, or raises
ProcessOutcomes == {"success", "failed", "raise"}

\* result["parsed_data"] of a successful process call
ParsedData(msg) == [parsed_from |-> msg.id]

\* the entry of `errors` for a call that did not succeed
ParseError(msg, outcome) ==
    [message_id |-> msg.id,
     error |-> IF outcome = "raise" THEN "Parse error" ELSE "rejected"]

\* parsed_results after the first n messages
RECURSIVE ParsedResults(_, _, _)
ParsedResults(msgs, outcomes, n) ==
    IF n = 0 THEN <<>>
    ELSE ParsedResults(msgs, outcomes, n - 1)
         \o (IF outcomes[n] = "success" THEN <<ParsedData(msgs[n])>> ELSE <<>>)

\* errors after the first n messages: the inner handler turns a raise of
\* process into an entry of errors
RECURSIVE ParseErrors(_, _, _)
ParseErrors(msgs, outcomes, n) ==
    IF n = 0 THEN <<>>
    ELSE ParseErrors(msgs, outcomes, n - 1)
         \o (IF outcomes[n] = "success" THEN <<>>
             ELSE <<ParseError(msgs[n], outcomes[n])>>)

\* _log_agent_execution: the INSERT, or nothing when the database call
\* raises (the exception is logged and swallowed)
LogAgentExecution(rows, db_ok, agent_name, status, output_summary) ==
    IF db_ok
    THEN Append(rows, [agent_name |-> agent_name, status |-> status,
                       output_summary |-> output_summary])
    ELSE rows

\* run_ssm_parser(state)
run_ssm_parser ==
    /\ Len(workflow_state.messages) < MaxWrapperCalls
    /\ \E outcomes \in [1..Len(workflow_state.ssm_messages) -> ProcessOutcomes] :
       \E db_ok \in BOOLEAN :
          LET msgs == workflow_state.ssm_messages
              parsed_results == ParsedResults(msgs, outcomes, Len(msgs))
              errors == ParseErrors(msgs, outcomes, Len(msgs))
          IN  /\ workflow_state' =
                     [workflow_state EXCEPT
                         !.current_agent = "ssm_parser",
                         !.parsed_flights = parsed_results,
                         !.messages = Append(@,
                             [agent |-> "ssm_parser", status |-> "completed",
                              parsed_flights |-> Len(parsed_results),
                              errors |-> Len(errors)])]
              /\ agent_executions' =
                     LogAgentExecution(agent_executions, db_ok, "ssm_parser",
                         "completed", <<Len(parsed_results), Len(errors)>>)
              /\ last_call' = [NoCall EXCEPT !.wrapper = "run_ssm_parser",
                                             !.process = outcomes]
    /\ UNCHANGED flights
    /\ UNCHANGED runVars
    /\ UNCHANGED validatorVars

\* validator.validate(schedule_id=..., flights=...) raises or returns a
\* result; ScheduleValidationAgent.validate takes no parameter `flights`,
\* and a result need not hold the key all_issues
ValidateOutcomes ==
    {[raises |-> TRUE, result |-> NoResult],
     [raises |-> FALSE, result |-> [status |-> "valid"]],
     [raises |-> FALSE, result |-> [all_issues |-> <<>>]],
     [raises |-> FALSE,
      result |-> [all_issues |-> <<[severity |-> "critical"]>>]],
     [raises |-> FALSE,
      result |-> [all_issues |-> <<[severity |-> "high"],
                                   [severity |-> "low"]>>]]}

\* validation_result.get("all_issues", [])
AllIssues(validation_result) ==
    IF "all_issues" \in DOMAIN validation_result
    THEN validation_result.all_issues
    ELSE <<>>

\* the issues of a list with one of these severities
WithSeverity(all_issues, severities) ==
    SelectSeq(all_issues, LAMBDA i : i.severity \in severities)

\* run_validator(state)
run_validator ==
    /\ Len(workflow_state.messages) < MaxWrapperCalls
    /\ \E outcome \in ValidateOutcomes :
       \E db_ok \in BOOLEAN :
          LET all_issues == AllIssues(outcome.result)
              conflicts == WithSeverity(all_issues, {"critical", "high"})
          IN  /\ IF outcome.raises
                 THEN /\ workflow_state' =
                            [workflow_state EXCEPT
                                !.current_agent = "validator",
                                !.messages = Append(@,
                                    [agent |-> "validator",
                                     status |-> "failed",
                                     error |-> "Validation error"])]
                      /\ UNCHANGED agent_executions
                 ELSE /\ workflow_state' =
                            [workflow_state EXCEPT
                                !.current_agent = "validator",
                                !.validation_results = <<outcome.result>>,
                                !.conflicts = conflicts,
                                !.messages = Append(@,
                                    [agent |-> "validator",
                                     status |-> "completed",
                                     total_issues |-> Len(all_issues),
                                     critical_issues |->
                                         Len(WithSeverity(all_issues, {"critical"})),
                                     high_issues |->
                                         Len(WithSeverity(all_issues, {"high"})),
                                     conflicts |-> Len(conflicts)])]
                      /\ agent_executions' =
                            LogAgentExecution(agent_executions, db_ok,
                                "validator", "completed",
                                <<Len(all_issues), Len(conflicts)>>)
              /\ last_call' = [NoCall EXCEPT !.wrapper = "run_validator",
                                             !.validate = outcome]
    /\ UNCHANGED flights
    /\ UNCHANGED runVars
    /\ UNCHANGED validatorVars

(* SpecWorkflow: up to MaxWrapperCalls calls of the two wrappers on a      *)
(* state that holds none, one or two SSM messages                          *)

SsmMessage(id) == [id |-> id]

SsmMessageLists ==
    {<<>>, <<SsmMessage("msg-001")>>,
     <<SsmMessage("msg-001"), SsmMessage("msg-002")>>}

InitWorkflow ==
    /\ RunIdle
    /\ ValidatorsIdle
    /\ flights = <<>>
    /\ \E ssm_messages \in SsmMessageLists :
          workflow_state = InitialWorkflowState(ssm_messages)
    /\ agent_executions = <<>>
    /\ last_call = NoCall

NextWorkflow ==
    \/ run_ssm_parser
    \/ run_validator

SpecWorkflow == InitWorkflow /\ [][NextWorkflow]_vars

-----------------------------------------------------------------------------
(* CrewValidator (validators/crew_validator.py).  The reference data holds *)
(* crew_assignments (flight, crew member, role), crew_availability (one    *)
(* row for a crew member) and the flights table the assignments are joined *)
(* with; a nullable column holds <<>> for NULL and <<v>> for v.  A time is *)
(* a time of day, <<hour, minute>>, and a duration is in minutes.  The     *)
(* rows of a query without ORDER BY come back in the order of CrewIds.     *)

\* hours
MIN_REST_PERIOD == 12
MIN_REST_REDUCED == 10
MAX_MONTHLY_HOURS == 100
MAX_YEARLY_HOURS == 1000

MIN_CREW_REQUIREMENTS ==
    [narrow_body |-> [pilots |-> 2, cabin_crew |-> 3],
     wide_body |-> [pilots |-> 2, cabin_crew |-> 6],
     regional |-> [pilots |-> 2, cabin_crew |-> 2]]

\* MAX_FLIGHT_DUTY_PERIOD by the number of sectors, in minutes
MaxFlightDutyPeriod(sectors) ==
    IF sectors <= 2 THEN 780
    ELSE IF sectors = 3 THEN 750
    ELSE IF sectors = 4 THEN 720
    ELSE IF sectors = 5 THEN 690
    ELSE IF sectors = 6 THEN 660
    ELSE 600

PilotRoles == {"pilot", "captain", "first_officer"}

\* the roles the query of _validate_rest_requirements selects
RestRoles == {"pilot", "captain", "first_officer", "cabin_crew"}

CrewIds == <<"c1", "c2">>

\* CrewValidator._get_aircraft_category
CrewAircraftCategory(aircraft_type) ==
    IF aircraft_type \in AIRCRAFT_CATEGORIES.narrow_body THEN "narrow_body"
    ELSE IF aircraft_type \in AIRCRAFT_CATEGORIES.wide_body THEN "wide_body"
    ELSE IF aircraft_type \in AIRCRAFT_CATEGORIES.regional THEN "regional"
    ELSE "narrow_body"

\* _add_minutes_to_time: datetime.combine(today, t) + minutes, then .time()
AddMinutesToTime(t, minutes) ==
    LET m == (MinutesOfDay(t) + minutes + 1440) % 1440
    IN  <<m \div 60, m % 60>>

\* _calculate_time_diff_hours, in minutes: both times are put on today's
\* date and the second is moved to tomorrow when it is the earlier one
CalculateTimeDiff(time1, time2) ==
    IF TimeLess(time2, time1)
    THEN MinutesOfDay(time2) + 1440 - MinutesOfDay(time1)
    ELSE MinutesOfDay(time2) - MinutesOfDay(time1)

\* the assignments of a flight with a role among roles, in the order of
\* CrewIds
AssignedCrew(rd, flight, roles) ==
    LET row(i) == {a \in rd.crew_assignments :
                      /\ a.flight_id = flight.flight_id
                      /\ a.crew_member_id = CrewIds[i]
                      /\ a.crew_role \in roles}
        Rows[i \in 0..Len(CrewIds)] ==
            IF i = 0 THEN <<>>
            ELSE IF row(i) = {} THEN Rows[i - 1]
            ELSE Append(Rows[i - 1], CHOOSE a \in row(i) : TRUE)
    IN  Rows[Len(CrewIds)]

\* the row of crew_availability of a crew member
Availability(rd, crew_id) ==
    CHOOSE c \in rd.crew_availability : c.crew_member_id = crew_id

\* the rows of the flights table a crew member is assigned to
FlightsOfCrew(rd, crew_id) ==
    {f \in rd.crew_flights :
        \E a \in rd.crew_assignments :
            a.crew_member_id = crew_id /\ a.flight_id = f.flight_id}

CrewIssue(severity, issue_type, flight) ==
    [severity |-> severity, category |-> "crew_validation",
     flight_id |-> flight.flight_id, flight_number |-> flight.flight_number,
     issue_type |-> issue_type]

ValidateCrewComplement(rd, flight) ==
    LET count(roles) == Cardinality({a \in rd.crew_assignments :
                            a.flight_id = flight.flight_id /\ a.crew_role \in roles})
        min_req == MIN_CREW_REQUIREMENTS[CrewAircraftCategory(flight.aircraft_type)]
        pilot_count == count(PilotRoles)
        cabin_count == count({"cabin_crew", "flight_attendant"})
    IN  (IF pilot_count < min_req.pilots
         THEN <<CrewIssue("critical", "insufficient_pilots", flight)
                @@ [assigned_count |-> pilot_count,
                    required_count |-> min_req.pilots]>>
         ELSE <<>>)
        \o (IF cabin_count < min_req.cabin_crew
            THEN <<CrewIssue("critical", "insufficient_cabin_crew", flight)
                   @@ [assigned_count |-> cabin_count,
                       required_count |-> min_req.cabin_crew]>>
            ELSE <<>>)

\* the body of the loop of _validate_crew_qualifications for one crew member
QualificationIssues(rd, flight, a) ==
    LET c == Availability(rd, a.crew_member_id)
        member == [crew_member_id |-> a.crew_member_id, crew_role |-> a.crew_role]
    IN  IF a.crew_role \notin PilotRoles THEN <<>>
        ELSE (IF c.aircraft_type_ratings = <<>>
                 \/ flight.aircraft_type \notin c.aircraft_type_ratings[1]
              THEN <<CrewIssue("critical", "missing_type_rating", flight)
                     @@ member>>
              ELSE <<>>)
             \o (IF c.certifications = <<>>
                    \/ "medical_current" \notin c.certifications[1]
                 THEN <<CrewIssue("critical", "invalid_medical_certificate",
                                  flight) @@ member>>
                 ELSE <<>>)

\* the body of the loop of _validate_duty_limits for one pilot: the flights
\* of the crew member on the date of the flight, ordered by departure (the
\* flights drawn that depart at one time arrive at one time)
DutyIssues(rd, flight, a) ==
    LET duty_flights == {f \in FlightsOfCrew(rd, a.crew_member_id) :
                            f.effective_from = flight.effective_from}
        first == CHOOSE f \in duty_flights : \A g \in duty_flights :
                     ~TimeLess(g.departure_time, f.departure_time)
        last == CHOOSE f \in duty_flights : \A g \in duty_flights :
                    ~TimeLess(f.departure_time, g.departure_time)
        duty_start == AddMinutesToTime(first.departure_time, -30)
        duty_end == AddMinutesToTime(last.arrival_time, 15)
        duty == CalculateTimeDiff(duty_start, duty_end)
        sectors == Cardinality(duty_flights)
    IN  IF duty_flights # {} /\ duty > MaxFlightDutyPeriod(sectors)
        THEN <<CrewIssue("critical", "fdp_exceeded", flight)
               @@ [crew_member_id |-> a.crew_member_id,
                   crew_role |-> a.crew_role, duty_hours |-> duty,
                   sectors |-> sectors]>>
        ELSE <<>>

\* SELECT MAX(f.arrival_time) over the crew member's flights with an earlier
\* effective_from: the latest time of day, <<>> when there is no such flight
PrevArrival(rd, crew_id, flight) ==
    LET earlier == {f \in FlightsOfCrew(rd, crew_id) :
                       f.effective_from < flight.effective_from}
    IN  IF earlier = {} THEN <<>>
        ELSE <<(CHOOSE f \in earlier : \A g \in earlier :
                    ~TimeLess(f.arrival_time, g.arrival_time)).arrival_time>>

\* rest_hours of _validate_rest_requirements, in minutes
RestMinutes(prev_arrival, flight) ==
    CalculateTimeDiff(AddMinutesToTime(prev_arrival, 15),
                      AddMinutesToTime(flight.departure_time, -30))

\* the body of the loop of _validate_rest_requirements for one crew member
RestIssues(rd, flight, a) ==
    LET prev_arrival == PrevArrival(rd, a.crew_member_id, flight)
    IN  IF prev_arrival # <<>>
           /\ RestMinutes(prev_arrival[1], flight) < MIN_REST_PERIOD * 60
        THEN <<CrewIssue(IF RestMinutes(prev_arrival[1], flight)
                                < MIN_REST_REDUCED * 60
                         THEN "critical" ELSE "high",
                         "insufficient_rest", flight)
               @@ [crew_member_id |-> a.crew_member_id,
                   crew_role |-> a.crew_role,
                   rest_hours |-> RestMinutes(prev_arrival[1], flight),
                   minimum_required |-> MIN_REST_PERIOD]>>
        ELSE <<>>

\* the body of the loop of _validate_hour_limits for one pilot
HourIssues(rd, flight, a) ==
    LET c == Availability(rd, a.crew_member_id)
        member == [crew_member_id |-> a.crew_member_id, crew_role |-> a.crew_role]
    IN  (IF c.monthly_hours_flown >= MAX_MONTHLY_HOURS
         THEN <<CrewIssue("critical", "monthly_hours_exceeded", flight)
                @@ member>>
         ELSE <<>>)
        \o (IF c.yearly_hours_flown >= MAX_YEARLY_HOURS
            THEN <<CrewIssue("high", "yearly_hours_exceeded", flight) @@ member>>
            ELSE <<>>)

\* the body of the loop of _validate_crew_base for one crew member
BaseIssues(rd, flight, a) ==
    LET c == Availability(rd, a.crew_member_id)
        positioning == {f \in rd.crew_flights :
                           /\ f.origin_airport = c.base_airport
                           /\ f.destination_airport = flight.origin_airport
                           /\ TimeLess(f.arrival_time, flight.departure_time)
                           /\ f.effective_from = flight.effective_from}
    IN  IF c.base_airport # flight.origin_airport /\ positioning = {}
        THEN <<CrewIssue("medium", "crew_base_mismatch", flight)
               @@ [crew_member_id |-> a.crew_member_id,
                   crew_role |-> a.crew_role, crew_base |-> c.base_airport]>>
        ELSE <<>>

\* a per-member check over the first n assignments of a flight
RECURSIVE OverCrew(_, _, _, _, _)
OverCrew(Check(_, _, _), rd, flight, crew_members, n) ==
    IF n = 0 THEN <<>>
    ELSE OverCrew(Check, rd, flight, crew_members, n - 1)
         \o Check(rd, flight, crew_members[n])

AllRoles == RestRoles \cup {"flight_attendant"}

\* the body of `for flight in flights` of CrewValidator.validate
CrewFlightIssues(rd, flight) ==
    LET all == AssignedCrew(rd, flight, AllRoles)
        pilots == AssignedCrew(rd, flight, PilotRoles)
        rested == AssignedCrew(rd, flight, RestRoles)
    IN  ValidateCrewComplement(rd, flight)
        \o OverCrew(QualificationIssues, rd, flight, all, Len(all))
        \o OverCrew(DutyIssues, rd, flight, pilots, Len(pilots))
        \o OverCrew(RestIssues, rd, flight, rested, Len(rested))
        \o OverCrew(HourIssues, rd, flight, pilots, Len(pilots))
        \o OverCrew(BaseIssues, rd, flight, all, Len(all))

RECURSIVE CrewIssues(_, _, _)
CrewIssues(rd, fl, n) ==
    IF n = 0 THEN <<>>
    ELSE CrewIssues(rd, fl, n - 1) \o CrewFlightIssues(rd, fl[n])

\* CrewValidator.validate(flights)
CrewValidate ==
    /\ returned = "none"
    /\ validator_issues' = CrewIssues(refdata, flights, Len(flights))
    /\ returned' = "crew"
    /\ UNCHANGED <<flights, refdata, connections, hash_seed, first_results>>
    /\ UNCHANGED runVars
    /\ UNCHANGED workflowVars

(* SpecCrew: CrewValidator.validate over every list of up to MaxFlights    *)
(* flights of day 5 drawn from CrewFlightOptions, with the crew's earlier  *)
(* flights drawn from PreviousDuties, the assignments from CrewRosters and *)
(* the crew records from CrewRecords                                       *)

\* departure and arrival: with a previous arrival at 20:00 the rest ends
\* 599, 600, 719 and 720 minutes after it began, or at 11:30; a duty from
\* the first to the last of them runs from 06:14 to 20:45
CrewFlightOptions ==
    {<<<<6, 44>>, <<9, 0>>>>, <<<<6, 45>>, <<9, 0>>>>, <<<<8, 44>>, <<11, 0>>>>,
     <<<<8, 45>>, <<11, 0>>>>, <<<<12, 0>>, <<20, 30>>>>}

CrewFlight(i, opt) ==
    Flight(FlightIds[i], FlightNumbers[i], "CM", "PTY", "MIA", opt[1], opt[2],
           AllDays, 5, 90, "738", "HP-1234", 7)

\* a row of the flights table
FlightRow(flight_id, origin, dest, dep, arr, date) ==
    [flight_id |-> flight_id, origin_airport |-> origin,
     destination_airport |-> dest, departure_time |-> dep,
     arrival_time |-> arr, effective_from |-> date]

\* the earlier flights of the crew: none, one that landed on day 4 at 20:00,
\* at 09:00 or at 23:00, one that landed on day 2 at 09:00, or one on day 2
\* that landed at 23:00 and one on day 4 that landed at 09:00
PreviousDuties ==
    {{},
     {FlightRow("p1", "MIA", "PTY", <<17, 0>>, <<20, 0>>, 4)},
     {FlightRow("p1", "MIA", "PTY", <<6, 0>>, <<9, 0>>, 4)},
     {FlightRow("p1", "MIA", "PTY", <<20, 0>>, <<23, 0>>, 4)},
     {FlightRow("p1", "MIA", "PTY", <<6, 0>>, <<9, 0>>, 2)},
     {FlightRow("p1", "MIA", "PTY", <<20, 0>>, <<23, 0>>, 2),
      FlightRow("p2", "MIA", "PTY", <<6, 0>>, <<9, 0>>, 4)}}

Assignment(flight_id, crew_id, role) ==
    [flight_id |-> flight_id, crew_member_id |-> crew_id, crew_role |-> role]

\* who flies the validated flights and flew the earlier ones: a captain and
\* a first officer, a captain and a flight attendant, or one cabin crew
CrewRosters == {<<"captain", "first_officer">>, <<"captain", "flight_attendant">>, <<"cabin_crew">>}

AssignmentsOf(roster, flight_ids) ==
    {Assignment(id, CrewIds[i], roster[i]) :
        id \in flight_ids, i \in 1..Len(roster)}

CrewRecord(crew_id, ratings, certs, base, monthly, yearly) ==
    [crew_member_id |-> crew_id, aircraft_type_ratings |-> ratings,
     certifications |-> certs, base_airport |-> base,
     monthly_hours_flown |-> monthly, yearly_hours_flown |-> yearly]

\* the record of c1: rated and fit, without ratings and certificates, based
\* at MIA, or at the monthly and yearly limits; c2 is rated and fit
CrewRecords ==
    {{c1, CrewRecord("c2", <<{"738"}>>, <<{"medical_current"}>>, "PTY", 50, 500)} :
        c1 \in {CrewRecord("c1", <<{"738"}>>, <<{"medical_current"}>>, "PTY", 50, 500),
                CrewRecord("c1", <<>>, <<>>, "PTY", 50, 500),
                CrewRecord("c1", <<{"320"}>>, <<{"medical_current"}>>, "MIA", 99, 999),
                CrewRecord("c1", <<{"738"}>>, <<{"medical_current"}>>, "PTY", 100, 1000)}}

InitCrew ==
    /\ RunIdle
    /\ WorkflowIdle
    /\ \E n \in 1..MaxFlights :
          \E opts \in [1..n -> CrewFlightOptions] :
              flights = [i \in 1..n |-> CrewFlight(i, opts[i])]
    /\ \E previous \in PreviousDuties, roster \in CrewRosters, records \in CrewRecords :
          refdata =
              [crew_flights |->
                   previous \cup
                   {FlightRow(f.flight_id, f.origin_airport,
                              f.destination_airport, f.departure_time,
                              f.arrival_time, f.effective_from) :
                        f \in {flights[i] : i \in 1..Len(flights)}},
               crew_assignments |->
                   AssignmentsOf(roster,
                                 {f.flight_id : f \in previous}
                                 \cup {f.flight_id : f \in {flights[i] : i \in 1..Len(flights)}}),
               crew_availability |-> records]
              @@ NoRefData
    /\ returned = "none"
    /\ connections = <<>>
    /\ validator_issues = <<>>
    /\ hash_seed = 0
    /\ first_results = EmptyResults

NextCrew == CrewValidate

SpecCrew == InitCrew /\ [][NextCrew]_vars

-----------------------------------------------------------------------------
(* Claims about the orchestrator and the aggregator *)

\* the issues of a result map, as a set
IssueSet(results) ==
    UNION {{results[c][k] : k \in 1..Len(results[c])} : c \in DOMAIN results}

\* C1: the status compile_validation_results derives is critical_errors when
\* some issue of some category is critical, otherwise warnings when there is
\* any issue at all, otherwise valid.
C1_StatusDerivation ==
    calls["compile_results"] = 1 =>
        overall_status =
            IF \E i \in IssueSet(validation_results) : i.severity = "critical"
                THEN "critical_errors"
            ELSE IF IssueSet(validation_results) # {} THEN "warnings"
            ELSE "valid"

\* compile ran on a map that holds a critical issue next to a non-critical one
C1_Witness ==
    /\ calls["compile_results"] = 1
    /\ overall_status = "critical_errors"
    /\ \E i \in IssueSet(validation_results) : i.severity = "low"

\* the synthetic issue the orchestrator contract records for a failed category
CategoryIncomplete(cat) ==
    [severity |-> "high", category |-> cat, issue_type |-> "category_incomplete"]

\* C2: when a validator raises, the run still returns the aggregator's status
\* (not failed), the failed category holds exactly one high
\* category_incomplete issue, and the other seven categories are present.
C2_ValidatorFailureRecorded ==
    (result # NoResult /\ raised \cap ValidatorNodes # {}) =>
        /\ result.status \in {"valid", "warnings", "critical_errors"}
        /\ DOMAIN result.validation_results = Categories
        /\ \A v \in raised \cap ValidatorNodes :
                result.validation_results[CategoryOf[v]]
                    = <<CategoryIncomplete(CategoryOf[v])>>

C4_PreconditionFailure ==
    ~schedule_found =>
        /\ \A v \in ValidatorNodes : calls[v] = 0
        /\ calls["compile_results"] = 0
        /\ validation_results = EmptyResults
        /\ calls["load_schedule"] = 1 =>
                /\ result.status = "failed"
                /\ DOMAIN result = {"status", "error"}
                /\ result.error = "Schedule not found"

\* validate has returned for a schedule id that has no row
C4_Witness ==
    /\ ~schedule_found
    /\ calls["load_schedule"] = 1
    /\ result.status = "failed"

\* C5: once the aggregator has run, validate returns the status and the issue
\* lists it derived, whether the LLM analysis and the report succeed or fail.
C5_DownstreamIndependent ==
    (result # NoResult /\ calls["compile_results"] = 1) =>
        /\ result.status = overall_status
        /\ result.validation_results = validation_results

\* the validator nodes that have returned
CompletedValidators ==
    {v \in ValidatorNodes : calls[v] = 1 /\ v \notin raised
                              /\ (v \notin active \/ v \in ran)}

\* the eight categories
EightCategories == {CategoryOrder[i] : i \in 1..Len(CategoryOrder)}

\* once the eight nodes have returned there are eight entries, one per
\* category, each holding issues of its own category only
EntriesComplete ==
    CompletedValidators = ValidatorNodes =>
        /\ DOMAIN validation_results = EightCategories
        /\ Cardinality(DOMAIN validation_results) = 8
        /\ \A c \in DOMAIN validation_results :
              \A k \in 1..Len(validation_results[c]) :
                  validation_results[c][k].category = c

\* a step keeps every entry already written as it is, and keeps the flight
\* list once it is loaded
EntriesKept ==
    /\ \A c \in DOMAIN validation_results :
          /\ c \in DOMAIN validation_results'
          /\ validation_results'[c] = validation_results[c]
    /\ calls["load_schedule"] = 1 => flights' = flights

\* C22: in whatever order the eight validator nodes run, once all eight have
\* returned validation_results holds exactly eight entries, one per category,
\* each the issue list of that category's validator; no step of a node
\* removes or overwrites an entry written before, and no node changes the
\* flight list
C22_NoInterference == []EntriesComplete /\ [][EntriesKept]_vars

\* the eight nodes have returned and two categories hold findings
C22_Witness ==
    /\ CompletedValidators = ValidatorNodes
    /\ active = {"compile_results"}
    /\ validation_results["pattern_validation"] # <<>>
    /\ validation_results["slot_validation"] # <<>>

-----------------------------------------------------------------------------
(* Claims about MCTValidator *)

\* the flights of a list, as a set
FlightSet(fl) == {fl[i] : i \in 1..Len(fl)}

\* the candidate connections of a flight list: inbound's destination is
\* outbound's origin and the overnight-aware gap lies in [30, 360]
CandidateConnections(fl) ==
    {pair \in FlightSet(fl) \X FlightSet(fl) :
        /\ pair[1].destination_airport = pair[2].origin_airport
        /\ IsPotentialConnection(pair[1], pair[2])}

\* C7: the connections MCTValidator evaluates are exactly the ordered pairs
\* (inbound, outbound) of flights of the validated list in which inbound's
\* destination airport is outbound's origin airport and the overnight-aware
\* gap from inbound arrival to outbound departure lies in [30, 360] minutes.
C7_ConnectionSet ==
    returned = "mct" =>
        {connections[k] : k \in 1..Len(connections)} = CandidateConnections(flights)

\* the number of returned issues of one type about one pair of flights
MCTIssueCount(inbound, outbound, severity, issue_type) ==
    Cardinality({k \in 1..Len(validator_issues) :
        /\ validator_issues[k].severity = severity
        /\ validator_issues[k].issue_type = issue_type
        /\ validator_issues[k].flight_id = outbound.flight_id
        /\ validator_issues[k].inbound_flight = inbound.flight_number})

\* what the claim expects about one pair with gap g and required time r
MCTBoundary(inbound, outbound) ==
    LET g == ConnectionMinutes(inbound, outbound)
        r == GetRequiredMCT(refdata, inbound.destination_airport, inbound, outbound)
        short == MCTIssueCount(inbound, outbound, "high",
                               "insufficient_connection_time")
        tight == MCTIssueCount(inbound, outbound, "medium", "tight_connection")
    IN  /\ g < r => short = 1 /\ tight = 0
        /\ (r <= g /\ g < r + 5) => short = 0 /\ tight = 1
        /\ g >= r + 5 => short = 0 /\ tight = 0

\* C8: every candidate connection with gap g and required minimum connect
\* time r has exactly one high insufficient_connection_time issue on the
\* outbound flight when g < r, exactly one medium tight_connection issue when
\* r <= g < r + 5, no MCT issue when g >= r + 5, and never both.
C8_MCTBoundary ==
    returned = "mct" =>
        \A pair \in CandidateConnections(flights) : MCTBoundary(pair[1], pair[2])

\* the flights and the reference data of Scenario B
ScenarioB ==
    /\ flights = <<MctFlight(1, ScenarioBOptions[1]),
                   MctFlight(2, ScenarioBOptions[2])>>
    /\ refdata.mct_rows = {}
    /\ refdata.flight_legs = {}

\* C18: Scenario B: for a domestic-to-domestic connection between flights of
\* two different carriers at a hub airport, with no minimum_connect_times
\* row and no terminal data, _get_required_mct gives 70 minutes (45 base +
\* 15 interline + 10 hub), and the inbound arriving at 10:00 with the
\* outbound departing at 10:40 yields a high insufficient_connection_time
\* issue whose required_mct_minutes is 70
C18_ScenarioB ==
    (returned = "mct" /\ ScenarioB) =>
        /\ GetRequiredMCT(refdata, "MIA", flights[1], flights[2]) = 70
        /\ \E k \in 1..Len(validator_issues) :
               /\ validator_issues[k].severity = "high"
               /\ validator_issues[k].issue_type = "insufficient_connection_time"
               /\ validator_issues[k].flight_id = flights[2].flight_id
               /\ validator_issues[k].inbound_flight = flights[1].flight_number
               /\ validator_issues[k].required_mct_minutes = 70

\* the flights whose departure or arrival time is not a time of day
MalformedFlights ==
    {f \in FlightSet(flights) :
        ParseTimeRaises(f.departure_time) \/ ParseTimeRaises(f.arrival_time)}

\* C23: no validator lets malformed flight input escape as an exception: for
\* a flight whose departure or arrival time is not a well-formed time the
\* validate call (here MCTValidator's) returns normally and the malformed
\* value is reported as a critical issue for that flight
C23_MalformedInputReported ==
    (returned # "none" /\ MalformedFlights # {}) =>
        /\ returned = "mct"
        /\ \A f \in MalformedFlights :
              \E k \in 1..Len(validator_issues) :
                  /\ validator_issues[k].severity = "critical"
                  /\ validator_issues[k].flight_id = f.flight_id

-----------------------------------------------------------------------------
(* Claims about AircraftValidator *)

\* a and b fly on one tail and b is the next to depart after a
ConsecutiveDepartures(fl, a, b) ==
    /\ a.aircraft_registration = b.aircraft_registration
    /\ TimeLess(a.departure_time, b.departure_time)
    /\ \A c \in FlightSet(fl) \ {a, b} :
          c.aircraft_registration = a.aircraft_registration =>
              \/ TimeLess(c.departure_time, a.departure_time)
              \/ TimeLess(b.departure_time, c.departure_time)

\* the registry rows of active aircraft with this registration
ActiveRows(rd, reg) ==
    {row \in rd.aircraft : row.registration = reg /\ row.status = "active"}

\* the minimum turnaround the claim states for an aircraft type
ClaimedMinTurnaround(aircraft_type) ==
    LET category == GetAircraftCategory(aircraft_type)
    IN  IF category = "narrow_body" THEN 45
        ELSE IF category = "wide_body" THEN 90
        ELSE IF category = "regional" THEN 30
        ELSE 45

\* the returned insufficient_turnaround issues about a flight
TurnaroundIssues(flight) ==
    {k \in 1..Len(validator_issues) :
        /\ validator_issues[k].issue_type = "insufficient_turnaround"
        /\ validator_issues[k].flight_id = flight.flight_id}

\* later follows earlier on a registered, active tail and leaves, on the same
\* day, gap minutes after earlier has arrived; min is the tail's minimum
TurnaroundCase(earlier, later, gap, min) ==
    /\ ConsecutiveDepartures(flights, earlier, later)
    /\ ~TimeLess(later.departure_time, earlier.arrival_time)
    /\ gap = MinutesOfDay(later.departure_time) - MinutesOfDay(earlier.arrival_time)
    /\ \E row \in ActiveRows(refdata, earlier.aircraft_registration) :
          min = ClaimedMinTurnaround(row.aircraft_type)

\* C9: of two flights of a registered, active tail that are consecutive in
\* departure order, the later leaving on the same day at or after the
\* earlier's arrival, the later flight gets no insufficient_turnaround issue
\* when the gap is the category's minimum turnaround (narrow-body 45,
\* wide-body 90, regional 30, other 45 minutes) and exactly one, of severity
\* high, when the gap is one minute less.
C9_TurnaroundBoundary ==
    returned = "aircraft" =>
        \A earlier \in FlightSet(flights) : \A later \in FlightSet(flights) :
            \A min \in {30, 45, 90} :
                /\ TurnaroundCase(earlier, later, min, min) =>
                       TurnaroundIssues(later) = {}
                /\ TurnaroundCase(earlier, later, min - 1, min) =>
                       /\ Cardinality(TurnaroundIssues(later)) = 1
                       /\ \A k \in TurnaroundIssues(later) :
                             /\ validator_issues[k].severity = "high"
                             /\ validator_issues[k].previous_flight =
                                    earlier.flight_number

\* a wide-body tail turned around in 89 minutes, with its one issue
C9_Witness ==
    /\ returned = "aircraft"
    /\ \E earlier \in FlightSet(flights) : \E later \in FlightSet(flights) :
          /\ TurnaroundCase(earlier, later, 89, 90)
          /\ Cardinality(TurnaroundIssues(later)) = 1

\* the flights and the registry of Scenario A
ScenarioA ==
    /\ flights = <<AircraftFlight(1, ScenarioAOptions[1]),
                   AircraftFlight(2, ScenarioAOptions[2])>>
    /\ AircraftRow("HP-1234", "738", "active", <<>>, <<>>) \in refdata.aircraft

\* the insufficient_turnaround issues returned
InsufficientTurnaroundIssues ==
    {k \in 1..Len(validator_issues) :
        validator_issues[k].issue_type = "insufficient_turnaround"}

\* C17: in Scenario A (tail HP-1234 an active 738 with no maintenance window,
\* CM101 PTY-MIA 08:00-11:30, CM102 MIA-JFK leaving at 08:25 on the same
\* tail) AircraftValidator emits exactly one insufficient_turnaround issue;
\* it is high, references CM102, and reports a turnaround of 25 minutes
\* against a minimum of 45
C17_ScenarioA ==
    (returned = "aircraft" /\ ScenarioA) =>
        /\ Cardinality(InsufficientTurnaroundIssues) = 1
        /\ \A k \in InsufficientTurnaroundIssues :
               /\ validator_issues[k].severity = "high"
               /\ validator_issues[k].flight_number = "102"
               /\ validator_issues[k].turnaround_minutes = 25
               /\ validator_issues[k].minimum_required = 45

\* next departure minus previous arrival, a negative difference moved to the
\* next day
OvernightAwareGap(prev_arrival, departure) ==
    LET naive == MinutesOfDay(departure) - MinutesOfDay(prev_arrival)
    IN  IF naive < 0 THEN naive + 1440 ELSE naive

\* C21: the turnaround AircraftValidator compares against the minimum is
\* next departure minus previous arrival when that is non-negative and that
\* difference plus 24 hours when it is negative: for every two flights that
\* are consecutive on a registered, active tail the compared value is the
\* overnight-aware gap, never negative, and every insufficient_turnaround
\* issue reports that gap
C21_OvernightTurnaround ==
    returned = "aircraft" =>
        /\ \A a \in FlightSet(flights) : \A b \in FlightSet(flights) :
              (/\ ConsecutiveDepartures(flights, a, b)
               /\ ActiveRows(refdata, a.aircraft_registration) # {}) =>
                  /\ TurnaroundMinutes(a, b) >= 0
                  /\ TurnaroundMinutes(a, b) =
                         OvernightAwareGap(a.arrival_time, b.departure_time)
        /\ \A k \in InsufficientTurnaroundIssues :
              validator_issues[k].turnaround_minutes =
                  OvernightAwareGap(validator_issues[k].previous_arrival,
                                    validator_issues[k].current_departure)

-----------------------------------------------------------------------------
(* Claims about PatternValidator *)

\* position i of a well-formed pattern holds the digit i or X
PositionalViolation(operating_days) ==
    \/ Len(operating_days) # 7
    \/ \E i \in 1..7 : operating_days[i] \notin {AllDays[i], "X"}

\* C10: a flight whose operating_days pattern violates the positional format
\* (some position i holds a character other than the digit i or X, or the
\* length is not 7) gets at least one critical issue from PatternValidator.
C10_PositionalOperatingDays ==
    returned = "pattern" =>
        \A i \in 1..Len(flights) :
            PositionalViolation(flights[i].operating_days) =>
                \E k \in 1..Len(validator_issues) :
                    /\ validator_issues[k].severity = "critical"
                    /\ validator_issues[k].flight_id = flights[i].flight_id

\* the issues of a type returned for a flight
PatternIssuesOf(flight, issue_type) ==
    {k \in 1..Len(validator_issues) :
        /\ validator_issues[k].flight_id = flight.flight_id
        /\ validator_issues[k].issue_type = issue_type}

\* the number of active-day characters of a pattern, position by position
RECURSIVE ActiveDays(_, _)
ActiveDays(operating_days, n) ==
    IF n = 0 THEN 0
    ELSE ActiveDays(operating_days, n - 1)
         + (IF operating_days[n] \in {"1", "2", "3", "4", "5", "6", "7"}
            THEN 1 ELSE 0)

\* C15: a flight gets a medium frequency_mismatch issue if and only if its
\* stated frequency_per_week differs from the number of digit characters in
\* its operating_days, a stated frequency of 0 against a pattern with active
\* days included
C15_FrequencyMismatch ==
    returned = "pattern" =>
        \A i \in 1..Len(flights) :
            (\E k \in PatternIssuesOf(flights[i], "frequency_mismatch") :
                 validator_issues[k].severity = "medium")
                <=> flights[i].frequency_per_week
                        # ActiveDays(flights[i].operating_days,
                                     Len(flights[i].operating_days))

\* the characters of a pattern that are neither a day digit nor X
OffendingCharacters(operating_days) ==
    {operating_days[k] : k \in 1..Len(operating_days)}
        \ {"1", "2", "3", "4", "5", "6", "7", "X"}

\* the flights whose pattern has seven characters, some of them offending
InvalidCharsCases ==
    {i \in 1..Len(flights) :
        /\ Len(flights[i].operating_days) = 7
        /\ OffendingCharacters(flights[i].operating_days) # {}}

\* C19: for a 7-character operating_days pattern with at least one character
\* outside {1,2,3,4,5,6,7,X} there is exactly one invalid_operating_days_chars
\* issue for the flight, it is critical, and its invalid_characters lists
\* exactly the offending characters, each once
C19_InvalidCharacters ==
    returned = "pattern" =>
        \A i \in InvalidCharsCases :
            LET found == PatternIssuesOf(flights[i],
                                        "invalid_operating_days_chars")
            IN  /\ Cardinality(found) = 1
                /\ \A k \in found :
                       /\ validator_issues[k].severity = "critical"
                       /\ CharSet(validator_issues[k].invalid_characters)
                              = OffendingCharacters(flights[i].operating_days)
                       /\ Len(validator_issues[k].invalid_characters)
                              = Cardinality(OffendingCharacters(
                                    flights[i].operating_days))

\* the pattern 1234560 was validated and its issue lists the character 0
C19_Witness ==
    /\ returned = "pattern"
    /\ \E i \in InvalidCharsCases :
           /\ flights[i].operating_days = <<"1", "2", "3", "4", "5", "6", "0">>
           /\ \E k \in PatternIssuesOf(flights[i],
                                        "invalid_operating_days_chars") :
                  validator_issues[k].invalid_characters = <<"0">>

-----------------------------------------------------------------------------
(* Claims about repeated runs *)

\* both runs of SpecRerun are complete
BothRunsComplete == first_results # EmptyResults /\ ran = ComputedValidators

\* C6: running the validators twice over the same flight list and the same
\* reference-data snapshot yields, for every category, the same issue list
\* (same issues, same order, same attribute values), whatever order the
\* validator nodes are scheduled in.
C6_Idempotent ==
    BothRunsComplete =>
        \A c \in DOMAIN validation_results :
            /\ c \in DOMAIN first_results
            /\ validation_results[c] = first_results[c]

-----------------------------------------------------------------------------
(* Claims about CurfewValidator *)

\* the two operations of a flight that CurfewValidator.validate checks
Operations == {"departure", "arrival"}

OperationAirport(flight, operation) ==
    IF operation = "departure" THEN flight.origin_airport
    ELSE flight.destination_airport

OperationTime(flight, operation) ==
    IF operation = "departure" THEN flight.departure_time
    ELSE flight.arrival_time

\* the issues returned for an operation of a flight
OperationIssues(flight, operation) ==
    {k \in 1..Len(validator_issues) :
        /\ validator_issues[k].flight_id = flight.flight_id
        /\ validator_issues[k].operation = operation
        /\ validator_issues[k].airport = OperationAirport(flight, operation)}

\* hour and minute a is earlier than hour and minute b
Earlier(a, b) == a[1] < b[1] \/ (a[1] = b[1] /\ a[2] < b[2])

\* t lies in the closed window from start to end, which spans midnight when
\* end is earlier than start
InClosedWindow(t, start, end) ==
    IF Earlier(end, start)
    THEN ~Earlier(t, start) \/ ~Earlier(end, t)
    ELSE ~Earlier(t, start) /\ ~Earlier(end, t)

\* the operation was found to be during the curfew: a violation, or an
\* exemption used
FoundDuringCurfew(flight, operation) ==
    \E k \in OperationIssues(flight, operation) :
        validator_issues[k].issue_type
            \in {"curfew_violation", "curfew_exemption_used"}

\* the operations of the flights whose airport has a curfew window
CurfewCases ==
    {c \in (1..Len(flights)) \X Operations :
        LET found == ConstraintsFor(refdata,
                                    OperationAirport(flights[c[1]], c[2]))
        IN  /\ found # <<>>
            /\ found[1].curfew_start # <<>>
            /\ found[1].curfew_end # <<>>}

CurfewWindowOf(c) ==
    ConstraintsFor(refdata, OperationAirport(flights[c[1]], c[2]))[1]

\* C11: _is_during_curfew(t, start, end) holds exactly when t lies in the
\* closed curfew window, start <= t <= end, or t >= start or t <= end when the
\* window spans midnight: an operation at an airport with a curfew window is
\* found to be during the curfew exactly when its time lies in the closed
\* window, the start and the end included
C11_CurfewWindowClosed ==
    returned = "curfew" =>
        \A c \in CurfewCases :
            LET t == OperationTime(flights[c[1]], c[2])
                w == CurfewWindowOf(c)
            IN  /\ IsDuringCurfew(t, w.curfew_start[1], w.curfew_end[1])
                       <=> InClosedWindow(t, w.curfew_start[1], w.curfew_end[1])
                /\ FoundDuringCurfew(flights[c[1]], c[2])
                       <=> InClosedWindow(t, w.curfew_start[1], w.curfew_end[1])

\* an operation at the very start of a window that spans midnight and one at
\* the very end of a window that does not are found during the curfew, and
\* one a minute after the end is not
C11_Witness ==
    /\ returned = "curfew"
    /\ \E c \in CurfewCases :
           /\ OperationTime(flights[c[1]], c[2]) = CurfewWindowOf(c).curfew_start[1]
           /\ Earlier(CurfewWindowOf(c).curfew_end[1],
                      CurfewWindowOf(c).curfew_start[1])
           /\ FoundDuringCurfew(flights[c[1]], c[2])
    /\ \E c \in CurfewCases :
           /\ OperationTime(flights[c[1]], c[2]) = CurfewWindowOf(c).curfew_end[1]
           /\ ~Earlier(CurfewWindowOf(c).curfew_end[1],
                       CurfewWindowOf(c).curfew_start[1])
           /\ FoundDuringCurfew(flights[c[1]], c[2])
    /\ \E c \in CurfewCases :
           /\ Earlier(CurfewWindowOf(c).curfew_end[1],
                      OperationTime(flights[c[1]], c[2]))
           /\ ~FoundDuringCurfew(flights[c[1]], c[2])

\* the operations of the flights whose airport has no constraints record
NoRecordCases ==
    {c \in (1..Len(flights)) \X Operations :
        GetAirportConstraints(refdata, OperationAirport(flights[c[1]], c[2]))
            = <<>>}

\* C16 as stated: when the reference data holds no constraints record for an
\* airport, no issue is emitted for a departure or an arrival at it, whatever
\* the scheduled time and whatever the airport code
C16_NoRecordNoIssue ==
    returned = "curfew" =>
        \A c \in NoRecordCases : OperationIssues(flights[c[1]], c[2]) = {}

\* C16, amended: when the reference data holds no constraints record for an
\* airport and the airport is not listed in CURFEW_AIRPORTS, no issue is
\* emitted for a departure or an arrival at it, whatever the scheduled time
C16_NoRecordNotListedNoIssue ==
    returned = "curfew" =>
        \A c \in NoRecordCases :
            OperationAirport(flights[c[1]], c[2]) \notin DOMAIN CURFEW_AIRPORTS
                => OperationIssues(flights[c[1]], c[2]) = {}

\* a departure at 23:30 from an airport with no record and no entry in
\* CURFEW_AIRPORTS, and the validator has returned
C16_Witness ==
    /\ returned = "curfew"
    /\ \E c \in NoRecordCases :
           /\ c[2] = "departure"
           /\ OperationAirport(flights[c[1]], c[2]) \notin DOMAIN CURFEW_AIRPORTS
           /\ OperationTime(flights[c[1]], c[2]) = <<23, 30>>
           /\ OperationIssues(flights[c[1]], c[2]) = {}

-----------------------------------------------------------------------------
(* Claims about RoutingValidator *)

\* the flights RoutingValidator groups whose aircraft type has a published
\* range
RangeCases ==
    {i \in 1..Len(flights) :
        /\ flights[i].aircraft_registration # NULL
        /\ flights[i].aircraft_type \in DOMAIN AIRCRAFT_RANGES}

\* the critical range_exceeded issues returned for a flight
RangeExceededIssues(flight) ==
    {k \in 1..Len(validator_issues) :
        /\ validator_issues[k].flight_id = flight.flight_id
        /\ validator_issues[k].issue_type = "range_exceeded"
        /\ validator_issues[k].severity = "critical"}

\* C12: a flight with a registration and an effective date gets a critical
\* range_exceeded issue if and only if its distance times 1.1 is strictly
\* greater than the published range of its aircraft type and no fuel-stop
\* leg is on record for it; with a fuel-stop leg on record it gets none,
\* whatever the distance
C12_RangeExceeded ==
    returned = "routing" =>
        \A i \in RangeCases :
            LET distance == GetDistance(refdata, flights[i].origin_airport,
                                        flights[i].destination_airport)
                published == AIRCRAFT_RANGES[flights[i].aircraft_type]
            IN  /\ RangeExceededIssues(flights[i]) # {}
                       <=> /\ 11 * distance > 10 * published
                           /\ LegCount(refdata, flights[i]) = 0
                /\ LegCount(refdata, flights[i]) > 0
                       => RangeExceededIssues(flights[i]) = {}

-----------------------------------------------------------------------------
(* Claims about SlotValidator *)

\* the airport of a flight in a direction
SlotAirport(flight, slot_type) ==
    IF slot_type = "departure" THEN flight.origin_airport
    ELSE flight.destination_airport

\* the issues returned for a flight and a direction
SlotIssuesOf(flight, slot_type) ==
    {k \in 1..Len(validator_issues) :
        /\ validator_issues[k].flight_id = flight.flight_id
        /\ validator_issues[k].slot_type = slot_type
        /\ validator_issues[k].airport = SlotAirport(flight, slot_type)}

\* no slot record exists for the flight in the direction
NoSlotRecord(flight, slot_type) ==
    ~\E s \in refdata.airport_slots :
        /\ s.airport_code = SlotAirport(flight, slot_type)
        /\ s.slot_type = slot_type
        /\ s.allocated_to_airline = flight.carrier_code
        /\ s.allocated_to_flight = flight.flight_id

\* C13: for a flight and a direction whose airport is coordinated and has no
\* slot record, SlotValidator emits exactly one issue, critical and of type
\* missing_slot, and no slot_time_mismatch or slot_not_confirmed issue; for
\* an airport outside the coordinated set it emits no issue at all
C13_MissingSlot ==
    returned = "slot" =>
        \A i \in 1..Len(flights) : \A slot_type \in {"departure", "arrival"} :
            LET found == SlotIssuesOf(flights[i], slot_type)
            IN  /\ (/\ SlotAirport(flights[i], slot_type) \in COORDINATED_AIRPORTS
                    /\ NoSlotRecord(flights[i], slot_type))
                       => /\ Cardinality(found) = 1
                          /\ \A k \in found :
                                /\ validator_issues[k].severity = "critical"
                                /\ validator_issues[k].issue_type = "missing_slot"
                /\ SlotAirport(flights[i], slot_type) \notin COORDINATED_AIRPORTS
                       => found = {}

\* a flight from a coordinated airport with no slot record to an airport
\* that is not coordinated: one issue in all, the missing departure slot
C13_Witness ==
    /\ returned = "slot"
    /\ \E i \in 1..Len(flights) :
           /\ flights[i].origin_airport \in COORDINATED_AIRPORTS
           /\ flights[i].destination_airport \notin COORDINATED_AIRPORTS
           /\ NoSlotRecord(flights[i], "departure")
           /\ Cardinality(SlotIssuesOf(flights[i], "departure")) = 1
           /\ SlotIssuesOf(flights[i], "arrival") = {}

-----------------------------------------------------------------------------
(* Claims about RegulatoryValidator *)

\* the freedom C14 states for a carrier's home country, an origin country
\* and a destination country; 0 where it states none
ClaimedFreedom(home, origin_country, dest_country) ==
    IF origin_country = dest_country /\ home # origin_country THEN 8
    ELSE IF origin_country = home /\ dest_country # home THEN 3
    ELSE IF dest_country = home /\ origin_country # home THEN 4
    ELSE IF origin_country # dest_country /\ origin_country # home
            /\ dest_country # home
    THEN 5
    ELSE 0

\* C14: _determine_required_freedom returns 8 when origin and destination
\* are the same country and the carrier is foreign to it, 3 when the origin
\* is the carrier's home country and the destination is not, 4 when the
\* destination is the home country and the origin is not, 5 when origin and
\* destination differ and neither is the home country: the freedom the
\* validator requires of a flight, and reports in a missing_traffic_rights
\* issue, is the one stated for the flight's countries
C14_RequiredFreedom ==
    returned = "regulatory" =>
        \A i \in 1..Len(flights) :
            LET home == GetCarrierCountry(flights[i].carrier_code)
                origin_country ==
                    RegulatoryCountryFromAirport(flights[i].origin_airport)
                dest_country ==
                    RegulatoryCountryFromAirport(flights[i].destination_airport)
                claimed == ClaimedFreedom(home, origin_country, dest_country)
            IN  claimed # 0 =>
                    /\ DetermineRequiredFreedom(home, origin_country,
                                                dest_country) = claimed
                    /\ \A k \in 1..Len(validator_issues) :
                           (/\ validator_issues[k].flight_id
                                   = flights[i].flight_id
                            /\ validator_issues[k].issue_type
                                   = "missing_traffic_rights")
                               => validator_issues[k].required_freedom = claimed

-----------------------------------------------------------------------------
(* Claims about the schedule-update workflow *)

\* the agent call wrapped by the wrapper of this call raised
AgentRaised(call) ==
    \/ /\ call.wrapper = "run_ssm_parser"
       /\ \E i \in DOMAIN call.process : call.process[i] = "raise"
    \/ /\ call.wrapper = "run_validator"
       /\ call.validate.raises

\* the agent a wrapper runs
WrappedAgent(call) ==
    IF call.wrapper = "run_ssm_parser" THEN "ssm_parser" ELSE "validator"

\* after is before with one message appended: a failed message of the agent
\* with an error field
FailedMessageAppended(before, after, agent) ==
    /\ Len(after) = Len(before) + 1
    /\ SubSeq(after, 1, Len(before)) = before
    /\ after[Len(after)].agent = agent
    /\ after[Len(after)].status = "failed"
    /\ "error" \in DOMAIN after[Len(after)]

\* C20: when the agent call wrapped by run_ssm_parser (ssm_parser.process)
\* or by run_validator (validator.validate) raises, the wrapper returns the
\* state with exactly one message appended for that agent, whose status is
\* failed and which carries an error field
C20_AgentFailureRecorded ==
    [][AgentRaised(last_call') =>
          FailedMessageAppended(workflow_state.messages,
                                workflow_state'.messages,
                                WrappedAgent(last_call'))]_vars

-----------------------------------------------------------------------------
(* Claims about RegulatoryValidator: cabotage *)

\* the critical cabotage_violation issues returned about a flight
CabotageIssues(f) ==
    {k \in 1..Len(validator_issues) :
        /\ validator_issues[k].issue_type = "cabotage_violation"
        /\ validator_issues[k].severity = "critical"
        /\ validator_issues[k].flight_id = f.flight_id}

\* a domestic flight operated by a carrier of another country
ForeignDomestic(f) ==
    /\ RegulatoryCountryFromAirport(f.origin_airport)
           = RegulatoryCountryFromAirport(f.destination_airport)
    /\ GetCarrierCountry(f.carrier_code)
           # RegulatoryCountryFromAirport(f.origin_airport)

\* the flight country and the carrier country both belong to the open region
OpenRegion(f) ==
    /\ RegulatoryCountryFromAirport(f.origin_airport) \in EU_EEA_COUNTRIES
    /\ GetCarrierCountry(f.carrier_code) \in EU_EEA_COUNTRIES

\* the record names an operating carrier other than the marketing carrier
NamedWetLease(f) ==
    /\ "operating_carrier" \in DOMAIN f
    /\ f.operating_carrier # f.carrier_code

\* C24: every domestic flight operated by a carrier of another country gets a
\* critical cabotage_violation issue unless flight country and carrier
\* country both belong to the open region or the record names an operating
\* carrier other than the marketing carrier; a record that names no
\* operating carrier is flagged
C24_Cabotage ==
    returned = "regulatory" =>
        \A f \in FlightSet(flights) :
            ForeignDomestic(f) =>
                (CabotageIssues(f) # {} <=> ~(OpenRegion(f) \/ NamedWetLease(f)))

-----------------------------------------------------------------------------
(* Claims about CurfewValidator: the curfew issue of an operation *)

\* the curfew issues returned for an operation of a flight
CurfewIssuesOf(flight, operation) ==
    {k \in OperationIssues(flight, operation) :
        validator_issues[k].issue_type
            \in {"curfew_violation", "curfew_exemption_used"}}

\* an exemption covers the operation: a granted slot exemption on record, or
\* an exemption type of the airport that fits the flight
Exempt(flight, operation, w) ==
    \/ SlotExemption(refdata, flight, OperationAirport(flight, operation),
                     operation) # <<>>
    \/ /\ w.exemption_types # <<>>
       /\ \/ flight.service_type = "F" /\ "cargo" \in w.exemption_types[1]
          \/ /\ flight.aircraft_type \in AIRCRAFT_NOISE_CATEGORIES["Chapter 14"]
             /\ "quiet_aircraft" \in w.exemption_types[1]

\* the curfew issue the operation must get: its type and its severity
ExpectedCurfewIssue(flight, operation, w) ==
    IF Exempt(flight, operation, w)
    THEN <<"curfew_exemption_used", "low">>
    ELSE <<"curfew_violation", IF w.strict_curfew THEN "critical" ELSE "high">>

-----------------------------------------------------------------------------
(* Claims about AircraftValidator: unknown and inactive tails *)

\* the returned issues about a flight
IssuesOfFlight(flight) ==
    {k \in 1..Len(validator_issues) :
        validator_issues[k].flight_id = flight.flight_id}

\* the returned issues that name a tail, in the order returned
IssuesOfTail(reg) ==
    SelectSeq(validator_issues, LAMBDA i : i.aircraft_registration = reg)

\* the flight gets exactly one issue, critical and of this type
OnlyIssue(flight, issue_type) ==
    /\ Cardinality(IssuesOfFlight(flight)) = 1
    /\ \A k \in IssuesOfFlight(flight) :
          /\ validator_issues[k].issue_type = issue_type
          /\ validator_issues[k].severity = "critical"

\* the tails of the flights that are absent from the registry, registered
\* but not active, and registered and active
AbsentTails ==
    {f.aircraft_registration : f \in FlightSet(flights)}
    \ {row.registration : row \in refdata.aircraft}

InactiveTails ==
    {row.registration : row \in {r \in refdata.aircraft : r.status # "active"}}

CheckedTails ==
    {f.aircraft_registration : f \in FlightSet(flights)}
    \ (AbsentTails \cup InactiveTails)

\* C26: for a tail absent from the aircraft registry AircraftValidator emits
\* exactly one critical aircraft_not_found issue per flight of the tail and
\* no other issue for those flights; for a registered tail that is not
\* active, exactly one critical aircraft_inactive issue per flight and no
\* other; the issues of every other tail are those of a run on that tail's
\* flights alone
C26_UnknownOrInactiveTail ==
    returned = "aircraft" =>
        /\ \A f \in FlightSet(flights) :
              /\ f.aircraft_registration \in AbsentTails
                     => OnlyIssue(f, "aircraft_not_found")
              /\ f.aircraft_registration \in InactiveTails
                     => OnlyIssue(f, "aircraft_inactive")
        /\ \A reg \in AbsentTails \cup InactiveTails :
              Len(IssuesOfTail(reg))
                  = Cardinality({f \in FlightSet(flights) :
                                    f.aircraft_registration = reg})
        /\ \A reg \in CheckedTails :
              LET alone == SelectSeq(flights,
                               LAMBDA f : f.aircraft_registration = reg)
              IN  IssuesOfTail(reg)
                      = AircraftIssues(refdata, alone, <<reg>>, 1)

\* a flight on a tail that is absent, or one on a tail that is stored, next
\* to a flight on an active tail that gets an issue of its own
C26_Witness ==
    /\ returned = "aircraft"
    /\ \E f \in FlightSet(flights) :
           /\ f.aircraft_registration \in AbsentTails \cup InactiveTails
           /\ Cardinality(IssuesOfFlight(f)) = 1
    /\ \E reg \in CheckedTails : IssuesOfTail(reg) # <<>>

-----------------------------------------------------------------------------
(* Claims about PatternValidator: overlapping effective dates *)

\* the records of one carrier and flight number
RecordsOf(key) == {f \in FlightSet(flights) : NumberKey(f) = key}

\* the effective-date ranges of two records share a day
RangesOverlap(a, b) ==
    a.effective_from <= b.effective_to /\ b.effective_from <= a.effective_to

\* the returned overlapping_effective_dates issues of a carrier and number
OverlapIssues(key) ==
    {k \in 1..Len(validator_issues) :
        /\ validator_issues[k].issue_type = "overlapping_effective_dates"
        /\ validator_issues[k].flight_number = key[2]
        /\ validator_issues[k].carrier = key[1]}

\* C27: for the records sharing one carrier and flight number, each with
\* effective_from <= effective_to: if any two of them, adjacent or not in
\* effective-from order, have overlapping effective-date ranges,
\* PatternValidator emits at least one high overlapping_effective_dates issue
\* for that flight number; if no two of them overlap, it emits none
C27_OverlappingEffectiveDates ==
    returned = "pattern" =>
        \A key \in {NumberKey(f) : f \in FlightSet(flights)} :
            IF \E a, b \in RecordsOf(key) : a # b /\ RangesOverlap(a, b)
            THEN /\ OverlapIssues(key) # {}
                 /\ \A k \in OverlapIssues(key) :
                        validator_issues[k].severity = "high"
            ELSE OverlapIssues(key) = {}

\* three records of one flight whose first and last in effective-from order
\* overlap while the last does not overlap the one before it, and an issue
\* is returned
C27_Witness ==
    /\ returned = "pattern"
    /\ \E a, b, c \in FlightSet(flights) :
           /\ NumberKey(a) = NumberKey(b) /\ NumberKey(b) = NumberKey(c)
           /\ a.effective_from < b.effective_from
           /\ b.effective_from < c.effective_from
           /\ RangesOverlap(a, c)
           /\ ~RangesOverlap(b, c)
           /\ OverlapIssues(NumberKey(a)) # {}

-----------------------------------------------------------------------------
(* Claims about RoutingValidator: routing discontinuity *)

\* the flights of a tail and date, sorted by departure
ChainGroup(key) ==
    SortedByDeparture(SelectSeq(flights, LAMBDA f : RoutingKey(f) = key))

\* the group holds a flight from current's destination to next's origin that
\* departs strictly after current's arrival and strictly before next's
\* departure
Bridged(group, current, next) ==
    \E f \in FlightSet(group) :
        /\ f.origin_airport = current.destination_airport
        /\ f.destination_airport = next.origin_airport
        /\ Earlier(current.arrival_time, f.departure_time)
        /\ Earlier(f.departure_time, next.departure_time)

\* the returned routing_discontinuity issues that reference a flight
DiscontinuityIssuesOf(flight) ==
    {k \in 1..Len(validator_issues) :
        /\ validator_issues[k].issue_type = "routing_discontinuity"
        /\ validator_issues[k].flight_id = flight.flight_id}

\* C28: for every (tail, date) group sorted by departure and every
\* consecutive pair (current, next) in it, RoutingValidator emits a critical
\* routing_discontinuity issue referencing next if and only if current's
\* destination differs from next's origin and the group holds no flight from
\* current's destination to next's origin that departs strictly after
\* current's arrival and strictly before next's departure; a pair whose
\* airports match never yields the issue
C28_RoutingDiscontinuity ==
    returned = "routing" =>
        \A key \in {RoutingKey(f) : f \in FlightSet(flights)} :
            LET group == ChainGroup(key)
            IN  \A n \in 1..(Len(group) - 1) :
                    LET current == group[n]
                        next == group[n + 1]
                        found == DiscontinuityIssuesOf(next)
                    IN  /\ found # {}
                            <=> /\ current.destination_airport
                                       # next.origin_airport
                                /\ ~Bridged(group, current, next)
                        /\ \A k \in found :
                               validator_issues[k].severity = "critical"

\* a pair whose airports differ and that a flight of the group bridges, with
\* no issue; and a pair whose airports differ, with the issue
C28_Witness ==
    /\ returned = "routing"
    /\ \E key \in {RoutingKey(f) : f \in FlightSet(flights)} :
           LET group == ChainGroup(key)
           IN  /\ \E n \in 1..(Len(group) - 1) :
                      /\ group[n].destination_airport
                             # group[n + 1].origin_airport
                      /\ Bridged(group, group[n], group[n + 1])
                      /\ DiscontinuityIssuesOf(group[n + 1]) = {}
               /\ \E n \in 1..(Len(group) - 1) :
                      /\ group[n].destination_airport
                             # group[n + 1].origin_airport
                      /\ DiscontinuityIssuesOf(group[n + 1]) # {}

-----------------------------------------------------------------------------
(* Claims about CrewValidator: rest before a duty *)

\* the flights of a crew member before the date of the flight that are on
\* the latest such date: the previous duty
PreviousDuty(crew_id, flight) ==
    LET earlier == {f \in FlightsOfCrew(refdata, crew_id) :
                       f.effective_from < flight.effective_from}
    IN  {f \in earlier : \A g \in earlier : g.effective_from <= f.effective_from}

\* the minutes from 15 minutes after the last arrival of the previous duty
\* to 30 minutes before the departure of the flight, the days between the
\* two included
ElapsedRest(crew_id, flight) ==
    LET duty == PreviousDuty(crew_id, flight)
        last == CHOOSE f \in duty : \A g \in duty :
                    MinutesOfDay(g.arrival_time) <= MinutesOfDay(f.arrival_time)
    IN  (flight.effective_from - last.effective_from) * 1440
        + (MinutesOfDay(flight.departure_time) - 30)
        - (MinutesOfDay(last.arrival_time) + 15)

\* the returned insufficient_rest issues of a crew member for a flight
RestIssuesOf(crew_id, flight) ==
    {k \in 1..Len(validator_issues) :
        /\ validator_issues[k].issue_type = "insufficient_rest"
        /\ validator_issues[k].flight_id = flight.flight_id
        /\ validator_issues[k].crew_member_id = crew_id}

\* the crew members assigned to a flight who have a previous duty
RestCases ==
    {c \in (1..Len(flights)) \X {CrewIds[i] : i \in 1..Len(CrewIds)} :
        /\ \E a \in refdata.crew_assignments :
              a.flight_id = flights[c[1]].flight_id /\ a.crew_member_id = c[2]
        /\ PreviousDuty(c[2], flights[c[1]]) # {}}

\* C29: for every crew member assigned to a flight who has a previous duty,
\* with rest the time elapsed from 15 minutes after the previous duty's last
\* arrival to 30 minutes before the flight's departure, the days between
\* included, CrewValidator emits an insufficient_rest issue if and only if
\* the rest is under 12 hours, critical when it is under 10 hours and high
\* otherwise; a previous duty that ended more than 24 hours before the
\* flight brings no insufficient_rest issue
C29_RestBeforeDuty ==
    returned = "crew" =>
        \A c \in RestCases :
            LET rest == ElapsedRest(c[2], flights[c[1]])
                found == RestIssuesOf(c[2], flights[c[1]])
            IN  /\ found # {} <=> rest < 12 * 60
                /\ \A k \in found :
                       validator_issues[k].severity
                           = IF rest < 10 * 60 THEN "critical" ELSE "high"

-----------------------------------------------------------------------------
(* Claims about MCTValidator: a flight and itself *)

\* the returned MCT issues that name one flight as both legs of a connection
SelfConnectionIssues ==
    {k \in 1..Len(validator_issues) :
        validator_issues[k].inbound_flight = validator_issues[k].outbound_flight}

\* C30: MCTValidator never evaluates a flight as a connection with itself:
\* no pair returned by _find_connections has the same flight as inbound and
\* outbound, and no MCT issue names one flight as both legs of a connection
C30_NoSelfConnection ==
    returned = "mct" =>
        /\ \A k \in 1..Len(connections) :
              connections[k][1].flight_id # connections[k][2].flight_id
        /\ SelfConnectionIssues = {}

====
